---- MODULE Spec2Model ----
(***************************************************************************)
(* Transaction-intake dialog engine of the finance bot: the guided flow    *)
(* (/add), the quick text entry (/add <args>) and the voice flow, over the *)
(* per-user FSM slot (state + data) and the transactions / categories      *)
(* tables.                                                                 *)
(*                                                                         *)
(* Texts are sequences of one-character strings.  TLA+ strings are ASCII,  *)
(* so Cyrillic literals of the source are transliterated ("Drugoe" for the *)
(* fallback category name, "rashod"/"dohod" for the kind keywords) and the *)
(* ruble glyph is the one-element token "RUB".                             *)
(*                                                                         *)
(* One action is one handler invocation, run to completion: the handlers   *)
(* of one user are taken one at a time.  Calls to the messaging transport  *)
(* (answer / edit_text) are taken to succeed; what they send is recorded   *)
(* in `out`.  What a handler reads from tables that other dialogs write    *)
(* (the limits in the user row, the month's expenses) is an input of the   *)
(* action.                                                                 *)
(***************************************************************************)
EXTENDS Integers, Sequences, FiniteSets, TLC

(***************************************************************************)
(* Bounds of the model                                                     *)
(***************************************************************************)
\* number of intake attempts (guided flows started, quick entries, voice
\* messages) the users make in one behaviour
MaxFlows == 2

\* custom categories created in the explored runs
MaxCustomCategories == 1

\* telegram ids of the users that talk to the bot; FSMContext keeps one slot
\* per user
Users == {1}

(***************************************************************************)
(* Text helpers (Python str methods used by the handlers)                  *)
(***************************************************************************)
Digits == {"0", "1", "2", "3", "4", "5", "6", "7", "8", "9"}

Whitespace == {" ", "\t", "\n"}

DigitVal(c) ==
    CASE c = "0" -> 0 [] c = "1" -> 1 [] c = "2" -> 2 [] c = "3" -> 3
      [] c = "4" -> 4 [] c = "5" -> 5 [] c = "6" -> 6 [] c = "7" -> 7
      [] c = "8" -> 8 [] c = "9" -> 9

IsDigits(s) == \A i \in 1..Len(s) : s[i] \in Digits

RECURSIVE DigitsToNat(_)
DigitsToNat(s) ==
    IF s = <<>> THEN 0
    ELSE 10 * DigitsToNat(SubSeq(s, 1, Len(s) - 1)) + DigitVal(s[Len(s)])

RECURSIVE Pow10(_)
Pow10(n) == IF n = 0 THEN 1 ELSE 10 * Pow10(n - 1)

\* str.lower() on the letters the model uses
LowerChar(c) ==
    CASE c = "D" -> "d" [] c = "P" -> "p" [] c = "Z" -> "z" [] c = "K" -> "k"
      [] c = "N" -> "n" [] c = "I" -> "i" [] c = "E" -> "e" [] c = "F" -> "f"
      [] OTHER -> c

Lower(s) == [i \in 1..Len(s) |-> LowerChar(s[i])]

RECURSIVE LStrip(_)
LStrip(s) ==
    IF s /= <<>> /\ s[1] \in Whitespace THEN LStrip(Tail(s)) ELSE s

RECURSIVE RStrip(_)
RStrip(s) ==
    IF s /= <<>> /\ s[Len(s)] \in Whitespace
    THEN RStrip(SubSeq(s, 1, Len(s) - 1)) ELSE s

\* str.strip()
Strip(s) == RStrip(LStrip(s))

\* the replace chain used on every amount string:
\* .replace(",", ".").replace("RUB", "").replace(" ", "")
RECURSIVE CleanAmount(_)
CleanAmount(s) ==
    IF s = <<>> THEN <<>>
    ELSE LET c == s[1]
             r == CleanAmount(Tail(s))
         IN  IF c = "RUB" \/ c = " " THEN r
             ELSE IF c = "," THEN <<".">> \o r
             ELSE <<c>> \o r

\* str.split(): maximal runs of non-whitespace characters
RECURSIVE Split(_)
Split(s) ==
    LET t == LStrip(s)
    IN  IF t = <<>> THEN <<>>
        ELSE LET ends == {i \in 1..Len(t) : t[i] \in Whitespace}
                 n == IF ends = {} THEN Len(t)
                      ELSE (CHOOSE i \in ends : \A j \in ends : i <= j) - 1
             IN  <<SubSeq(t, 1, n)>> \o Split(SubSeq(t, n + 1, Len(t)))

\* `needle in hay` on strings
Contains_at_start(hay, needle) ==
    /\ Len(needle) <= Len(hay)
    /\ SubSeq(hay, 1, Len(needle)) = needle

Contains(hay, needle) ==
    \E i \in 0..(Len(hay) - Len(needle)) :
        SubSeq(hay, i + 1, i + Len(needle)) = needle

\* " ".join(parts)
RECURSIVE Join(_)
Join(parts) ==
    IF parts = <<>> THEN <<>>
    ELSE IF Len(parts) = 1 THEN parts[1]
    ELSE parts[1] \o <<" ">> \o Join(Tail(parts))

(***************************************************************************)
(* Numbers.  A number is [k, neg, coef, exp]: k = "fin" is the value       *)
(* (-1)^neg * coef * 10^exp, k = "nan" / "inf" the special values and      *)
(* k = "bad" a string the constructor rejects (ValueError /                *)
(* InvalidOperation).  exp is Decimal.as_tuple().exponent.                 *)
(***************************************************************************)
BadNum == [k |-> "bad", neg |-> FALSE, coef |-> 0, exp |-> 0]

\* digits [ "." [digits] ] | "." digits, no sign, no exponent
ParseUnsigned(s) ==
    LET dots == {i \in 1..Len(s) : s[i] = "."}
    IN  IF dots = {} THEN
            IF s /= <<>> /\ IsDigits(s)
            THEN [k |-> "fin", neg |-> FALSE, coef |-> DigitsToNat(s), exp |-> 0]
            ELSE BadNum
        ELSE IF Cardinality(dots) > 1 THEN BadNum
        ELSE LET d == CHOOSE i \in dots : TRUE
                 ip == SubSeq(s, 1, d - 1)
                 fp == SubSeq(s, d + 1, Len(s))
             IN  IF IsDigits(ip) /\ IsDigits(fp) /\ Len(ip) + Len(fp) > 0
                 THEN [k |-> "fin", neg |-> FALSE,
                       coef |-> DigitsToNat(ip \o fp), exp |-> 0 - Len(fp)]
                 ELSE BadNum

\* mantissa [ "e" [sign] digits ]
ParseMantExp(s) ==
    LET es == {i \in 1..Len(s) : s[i] = "e"}
    IN  IF es = {} THEN ParseUnsigned(s)
        ELSE IF Cardinality(es) > 1 THEN BadNum
        ELSE LET p == CHOOSE i \in es : TRUE
                 m == ParseUnsigned(SubSeq(s, 1, p - 1))
                 x == SubSeq(s, p + 1, Len(s))
                 xneg == x /= <<>> /\ x[1] = "-"
                 xd == IF x /= <<>> /\ x[1] \in {"+", "-"} THEN Tail(x) ELSE x
             IN  IF m.k = "bad" \/ xd = <<>> \/ ~IsDigits(xd) THEN BadNum
                 ELSE [m EXCEPT !.exp = IF xneg THEN m.exp - DigitsToNat(xd)
                                        ELSE m.exp + DigitsToNat(xd)]

\* The numeric-string grammar shared by Decimal(str) and float(str):
\* surrounding whitespace is ignored, then [sign] (number | nan | inf |
\* infinity), letters in any case.
ParseNumber(s) ==
    LET t == Lower(Strip(s))
        sg == t /= <<>> /\ t[1] \in {"+", "-"}
        neg == t /= <<>> /\ t[1] = "-"
        b == IF sg THEN Tail(t) ELSE t
    IN  IF b = <<"n", "a", "n">>
        THEN [k |-> "nan", neg |-> neg, coef |-> 0, exp |-> 0]
        ELSE IF b \in {<<"i", "n", "f">>,
                       <<"i", "n", "f", "i", "n", "i", "t", "y">>}
        THEN [k |-> "inf", neg |-> neg, coef |-> 0, exp |-> 0]
        ELSE LET m == ParseMantExp(b)
             IN  IF m.k = "bad" THEN BadNum ELSE [m EXCEPT !.neg = neg]

\* n <= 0 for a finite or infinite n
NonPositive(n) ==
    IF n.k = "inf" THEN n.neg ELSE n.neg \/ n.coef = 0

\* n > lim for a finite or infinite n and an integer lim >= 0
GreaterThan_unscaled(n, lim) ==
    IF n.k = "inf" THEN ~n.neg
    ELSE IF n.neg THEN FALSE
    ELSE n.coef > lim

GreaterThan(n, lim) ==
    IF n.k = "inf" THEN ~n.neg
    ELSE IF n.neg THEN FALSE
    ELSE IF n.exp >= 0 THEN n.coef * Pow10(n.exp) > lim
    ELSE LET p == Pow10(0 - n.exp)
         IN  (n.coef \div p) > lim \/ ((n.coef \div p) = lim /\ n.coef % p > 0)

(***************************************************************************)
(* Validators (src/utils/validators.py)                                    *)
(***************************************************************************)
MaxAmount == 10000000

MaxCategoryNameLen == 50

MinCategoryNameLen == 2

MaxDescriptionLen == 500

\* re.match(r'^\d+(\.\d{1,2})?$', s); `$` also matches before one final "\n"
MatchesAmountPattern(s) ==
    LET t == IF s /= <<>> /\ s[Len(s)] = "\n" THEN SubSeq(s, 1, Len(s) - 1)
             ELSE s
    IN  \E n \in 1..Len(t) :
            /\ IsDigits(SubSeq(t, 1, n))
            /\ \/ n = Len(t)
               \/ /\ n < Len(t)
                  /\ t[n + 1] = "."
                  /\ Len(t) - n - 1 \in {1, 2}
                  /\ IsDigits(SubSeq(t, n + 2, Len(t)))

\* validate_amount: (is_valid, amount, error)
validate_amount_below_maximum(amount_str) ==
    LET cleaned == CleanAmount(amount_str)
        amount == ParseNumber(cleaned)
    IN  IF ~MatchesAmountPattern(cleaned)
        THEN [ok |-> FALSE, amount |-> BadNum, err |-> "format"]
        ELSE IF amount.k = "bad"
        THEN [ok |-> FALSE, amount |-> BadNum, err |-> "format"]
        ELSE IF NonPositive(amount)
        THEN [ok |-> FALSE, amount |-> BadNum, err |-> "non_positive"]
        ELSE IF GreaterThan(amount, MaxAmount - 1)
        THEN [ok |-> FALSE, amount |-> BadNum, err |-> "too_large"]
        ELSE IF amount.exp < 0 - 2
        THEN [ok |-> FALSE, amount |-> BadNum, err |-> "too_many_decimals"]
        ELSE [ok |-> TRUE, amount |-> amount, err |-> "none"]

validate_amount(amount_str) ==
    LET cleaned == CleanAmount(amount_str)
        amount == ParseNumber(cleaned)
    IN  IF ~MatchesAmountPattern(cleaned)
        THEN [ok |-> FALSE, amount |-> BadNum, err |-> "format"]
        ELSE IF amount.k = "bad"
        THEN [ok |-> FALSE, amount |-> BadNum, err |-> "format"]
        ELSE IF NonPositive(amount)
        THEN [ok |-> FALSE, amount |-> BadNum, err |-> "non_positive"]
        ELSE IF GreaterThan(amount, MaxAmount)
        THEN [ok |-> FALSE, amount |-> BadNum, err |-> "too_large"]
        ELSE IF amount.exp < 0 - 2
        THEN [ok |-> FALSE, amount |-> BadNum, err |-> "too_many_decimals"]
        ELSE [ok |-> TRUE, amount |-> amount, err |-> "none"]

\* html.escape(text) (quote=True)
RECURSIVE HtmlEscape(_)
HtmlEscape(s) ==
    IF s = <<>> THEN <<>>
    ELSE LET c == s[1]
             r == HtmlEscape(Tail(s))
         IN  CASE c = "&" -> <<"&", "a", "m", "p", ";">> \o r
               [] c = "<" -> <<"&", "l", "t", ";">> \o r
               [] c = ">" -> <<"&", "g", "t", ";">> \o r
               [] c = "\"" -> <<"&", "q", "u", "o", "t", ";">> \o r
               [] c = "'" -> <<"&", "#", "x", "2", "7", ";">> \o r
               [] OTHER -> <<c>> \o r

\* "CTRL" stands for a C0/C1 control character other than "\n" and "\t"
StripControl(s) == SelectSeq(s, LAMBDA c : c /= "CTRL")

\* sanitize_text(text, max_length); max_length = 0 is "no limit"
sanitize_text(text, max_length) ==
    IF text = <<>> THEN <<>>
    ELSE LET t == StripControl(HtmlEscape(Strip(text)))
         IN  IF max_length /= 0 /\ Len(t) > max_length
             THEN SubSeq(t, 1, max_length) ELSE t

\* "BQ" stands for the backtick character
UnsafeNameChars == {"<", ">", "\"", "'", "BQ"}

\* validate_category_name: "ok" or the error
validate_category_name(raw) ==
    LET name == Strip(raw)
    IN  IF Len(name) < MinCategoryNameLen THEN "too_short"
        ELSE IF Len(name) > MaxCategoryNameLen THEN "too_long"
        ELSE IF \E i \in 1..Len(name) : name[i] \in UnsafeNameChars
        THEN "unsafe"
        ELSE "ok"

\* validate_description: "ok" or the error
validate_description(description) ==
    IF Len(description) > MaxDescriptionLen THEN "too_long" ELSE "ok"

(***************************************************************************)
(* Tables (src/models, src/services/database.py)                           *)
(***************************************************************************)
Drugoe == <<"D", "r", "u", "g", "o", "e">>

Produkty == <<"P", "r", "o", "d", "u", "k", "t", "y">>

Zarplata == <<"Z", "a", "r", "p", "l", "a", "t", "a">>

\* DEFAULT_EXPENSE_CATEGORIES then DEFAULT_INCOME_CATEGORIES, as inserted by
\* initialize_default_categories (one named category of each list and the
\* fallback of each list)
SeedCategories ==
    << [name |-> Produkty, type |-> "expense", emoji |-> "cart",
        is_default |-> TRUE, user_id |-> 0],
       [name |-> Drugoe, type |-> "expense", emoji |-> "pencil",
        is_default |-> TRUE, user_id |-> 0],
       [name |-> Zarplata, type |-> "income", emoji |-> "briefcase",
        is_default |-> TRUE, user_id |-> 0],
       [name |-> Drugoe, type |-> "income", emoji |-> "pencil",
        is_default |-> TRUE, user_id |-> 0] >>

\* settings.max_transaction_amount
max_transaction_amount == 1000000

\* the values a user's max_transaction_limit / monthly_limit column takes in
\* the model; 0 is NULL (both are falsy where the handlers test them)
TransactionLimits == {0, 100000}

MonthlyLimits == {0, 50000}

\* the limit settings a user row holds when a turn reads it (they are
\* written by the settings dialog)
LimitSettings ==
    [max_transaction_limit : TransactionLimits, monthly_limit : MonthlyLimits]

\* collation used for ORDER BY name
Alphabet ==
    << " ", "#", "&", ";", "0", "1", "2", "3", "4", "5", "6", "7", "8", "9",
       "D", "K", "P", "Z", "a", "b", "d", "e", "f", "g", "k", "l", "m", "o",
       "p", "q", "r", "t", "u", "x", "y", "z" >>

CharRank(c) ==
    IF \E i \in 1..Len(Alphabet) : Alphabet[i] = c
    THEN CHOOSE i \in 1..Len(Alphabet) : Alphabet[i] = c
    ELSE 0

RECURSIVE TextLess(_, _)
TextLess(a, b) ==
    IF b = <<>> THEN FALSE
    ELSE IF a = <<>> THEN TRUE
    ELSE IF CharRank(a[1]) /= CharRank(b[1]) THEN CharRank(a[1]) < CharRank(b[1])
    ELSE TextLess(Tail(a), Tail(b))

VARIABLES
    fsm,          \* FSMContext state of each user ("none" is None)
    data,         \* FSMContext data of each user
    categories,   \* table categories; the id of a row is its index
    tx_count,     \* number of rows of table transactions
    transactions, \* table transactions; the id of a row is its index
    commits,      \* outcomes of the create_transaction calls made for the
                  \* latest draft of each user
    users,        \* telegram ids that have a row in table users
    shown,        \* category ids offered to each user on a 'category:' keyboard
    flows,        \* number of intake attempts made so far
    draft,        \* number of the latest draft each user started (0: none)
    last,         \* the event handled last: its handler, what it sent and
                  \* the create_transaction call it made
    tasks,        \* the tasks start_polling created for the updates it
                  \* received, each with the await it has reached
    whisper_model,   \* global _whisper_model: 0 is None, k the model object
                     \* built by the k-th load
    callers,      \* the coroutines inside _load_whisper_model
    loads,        \* number of loads of the speech model started so far
    settings,     \* get_settings() as read by parse_transaction_text
    pc,           \* where parse_transaction_text stands
    attempt,      \* loop variable of parse_transaction_text
    clock,        \* time.monotonic() - start_time, in tenths of a second
    requests,     \* HTTP requests sent by the current call
    sleeps,       \* backoff sleeps made by the current call
    outcomes,     \* how the HTTP requests of the current call ended
    decoded,      \* transaction_data of the latest request, if it got as
                  \* far as json.loads(content)
    error,        \* the ParsingError the call raised ("none": none)
    input,        \* the arguments a function is called with
    output,       \* what the function returned for them (<<>>: not called)
    _requests,    \* InMemoryRateLimiterBackend._requests
    redis,        \* the keys 'rate_limit:user:<id>' of the Redis server
    now,          \* time.time() and the clock of the Redis server, in seconds
    window        \* for each backend and user, the window the calls are
                  \* counted in: its start and the calls made in it

vars ==
    <<fsm, data, categories, tx_count, transactions, commits, users,
      shown, flows, draft, last,
      tasks, whisper_model, callers, loads,
      settings, pc, attempt, clock, requests, sleeps, outcomes, decoded,
      error, input, output, _requests, redis, now, window>>

\* the state of the dialogs
dialogs ==
    <<fsm, data, categories, tx_count, transactions, commits, users,
      shown, flows, draft, last>>

\* the state of the update tasks
polling == <<tasks>>

\* the state of the speech model loader
whisper == <<whisper_model, callers, loads>>

\* the state of one call of parse_transaction_text
parsing ==
    <<settings, pc, attempt, clock, requests, sleeps, outcomes, decoded,
      error>>

\* the state of one call of a function that only computes
pure == <<input, output>>

\* the state of the rate limiter backends
limiter == <<_requests, redis, now, window>>

\* what the dialog handlers, taken as atomic steps, leave alone
side == <<polling, whisper, parsing, pure, limiter>>

\* what create_transaction writes, and the record of its calls
ledger == <<tx_count, transactions, commits>>

NoAmount == [repr |-> "absent", k |-> "bad", neg |-> FALSE, coef |-> 0, exp |-> 0]

\* a Decimal / a float held in the draft
AsDecimal(n) ==
    [repr |-> "decimal", k |-> n.k, neg |-> n.neg, coef |-> n.coef, exp |-> n.exp]

AsFloat(n) ==
    [repr |-> "float", k |-> n.k, neg |-> n.neg, coef |-> n.coef, exp |-> n.exp]

Absent == [k |-> "absent", v |-> <<>>]

None == [k |-> "none", v |-> <<>>]

Text(t) == [k |-> "text", v |-> t]

\* FSMContext data after clear(): no key is set
EmptyData ==
    [user_id |-> 0, transaction_type |-> "absent", category_type |-> "absent",
     amount |-> NoAmount, category_id |-> 0, category_name |-> Absent,
     category_emoji |-> "absent", description |-> Absent,
     recognized_text |-> Absent, transaction_id |-> 0]

\* get_categories(user_id, category_type, include_default=True): the ids of
\* the rows, ORDER BY is_default DESC, name
Before(i, j) ==
    LET a == categories[i]
        b == categories[j]
    IN  IF a.is_default /= b.is_default THEN a.is_default
        ELSE IF a.name /= b.name THEN TextLess(a.name, b.name)
        ELSE i < j

RECURSIVE SortIds(_)
SortIds(ids) ==
    IF ids = {} THEN <<>>
    ELSE LET m == CHOOSE i \in ids : \A j \in ids \ {i} : Before(i, j)
         IN  <<m>> \o SortIds(ids \ {m})

get_categories(user_id, category_type) ==
    SortIds({i \in DOMAIN categories :
                /\ IF user_id /= 0
                   THEN categories[i].is_default \/ categories[i].user_id = user_id
                   ELSE categories[i].is_default
                /\ categories[i].type = category_type})

\* get_category_by_id: the id if the row exists, else 0 (None)
get_category_by_id(category_id) ==
    IF category_id \in DOMAIN categories THEN category_id ELSE 0

\* the arguments of one create_transaction call and its outcome
Call(d, user_id, transaction_type, amount, category_id, description, ok) ==
    [draft |-> d, user_id |-> user_id, type |-> transaction_type,
     amount |-> amount, category_id |-> category_id,
     description |-> description, ok |-> ok]

NoCall == Call(0, 0, "absent", NoAmount, 0, None, FALSE)

NoEvent == [user |-> 0, handler |-> "none", event |-> "none", result |-> "none",
            out |-> <<>>, call |-> NoCall]

\* no update is being handled concurrently
NoTasks == tasks = <<>>

\* nothing is inside _load_whisper_model, and the model is loaded
NoCallers ==
    /\ whisper_model = 1
    /\ callers = <<>>
    /\ loads = 1

\* no response has been decoded
NoResponse == [shape |-> "none", type |-> "none", json |-> "none", text |-> <<>>]

\* parse_transaction_text is not running
NoParse ==
    /\ settings = [agentrouter_max_retries |-> 0, agentrouter_timeout |-> 0,
                   agentrouter_total_deadline |-> 0]
    /\ pc = "idle"
    /\ attempt = 0
    /\ clock = 0
    /\ requests = 0
    /\ sleeps = 0
    /\ outcomes = <<>>
    /\ decoded = NoResponse
    /\ error = "none"

\* no rate limiter backend in use
NoLimiter ==
    /\ _requests = <<>>
    /\ redis = <<>>
    /\ now = 0
    /\ window = <<>>

\* no function is being applied on its own
NoFunction ==
    /\ input = <<>>
    /\ output = <<>>

Init ==
    /\ fsm = [u \in Users |-> "none"]
    /\ data = [u \in Users |-> EmptyData]
    /\ categories \in {SeedCategories, <<>>}
    /\ tx_count = 0
    /\ transactions = <<>>
    /\ NoLimiter
    /\ commits = [u \in Users |-> <<>>]
    /\ users = {}
    /\ shown = [u \in Users |-> {}]
    /\ flows = 0
    /\ draft = [u \in Users |-> 0]
    /\ last = NoEvent
    /\ NoTasks
    /\ NoFunction
    /\ NoCallers
    /\ NoParse

(***************************************************************************)
(* Inputs the users send                                                   *)
(***************************************************************************)
\* texts sent where an amount is expected
AmountTexts ==
    { <<"5", "0", "0", ",", "5", " ", "RUB">>,          \* 500,5 RUB
      <<"2", "0", "0", "0", "0", "0", "0">>,            \* 2000000
      <<"0">>,
      <<"1", ".", "2", "3", "4">>,                      \* 1.234
      <<"2", "0", "0", "0", "0", "0", "0", "0">>,       \* 20000000
      <<"a", "b", "c">> }

\* totals of a user's expenses of the month, in hundredths
SpentSamples == {0, 4500000}

\* texts sent where a category name is expected
CategoryTexts ==
    { <<" ", "K", "a", "f", "e">>,
      <<"x">>,
      <<"a", "BQ", "b">> }

\* texts sent where a description is expected
DescriptionTexts == { <<" ", "<", "b", ">">> }

(***************************************************************************)
(* Helpers of the handlers                                                 *)
(***************************************************************************)
Event(u, handler, event, result, out) ==
    [user |-> u, handler |-> handler, event |-> event, result |-> result,
     out |-> out, call |-> NoCall]

\* the event of a handler that called create_transaction
WithCall(e, d, user_id, transaction_type, amount, category_id, description, ok) ==
    [e EXCEPT !.call = Call(d, user_id, transaction_type, amount, category_id,
                            description, ok)]

\* FSMContext.clear() for user u
Cleared(f, u) == [f EXCEPT ![u] = "none"]

ClearedData(d, u) == [d EXCEPT ![u] = EmptyData]

\* a finite positive amount in hundredths (kopecks), rounded down
Hundredths(a) ==
    IF a.exp >= 0 - 2 THEN a.coef * Pow10(a.exp + 2)
    ELSE a.coef \div Pow10(0 - a.exp - 2)

\* `current_spent + amount` with current_spent = float(stats['total_expense'])
\* of get_user_statistics(user.id, start_month): Python raises
\* TypeError when amount is a Decimal
new_total(current_spent, amount) ==
    IF amount.repr = "decimal"
    THEN [raised |-> TRUE, value |-> 0]
    ELSE [raised |-> FALSE, value |-> current_spent + Hundredths(amount)]

\* user.max_transaction_limit or settings.max_transaction_amount
transaction_limit_global(user) ==
    max_transaction_amount

transaction_limit(user) ==
    IF user.max_transaction_limit /= 0
    THEN user.max_transaction_limit
    ELSE max_transaction_amount

\* the limit checks of process_amount_input for an accepted amount, with
\* current_spent the month's expenses get_user_statistics reports (in
\* hundredths): the warnings sent, in order, and whether the checks raised
limit_checks_any_type(u, user, transaction_type, amount, current_spent) ==
    IF u \in users
    THEN LET w1 == IF GreaterThan(amount, transaction_limit(user))
                   THEN <<"warn_transaction_limit">> ELSE <<>>
             monthly == user.monthly_limit
         IN  IF monthly /= 0
             THEN LET nt == new_total(current_spent, amount)
                  IN  IF nt.raised THEN [raised |-> TRUE, out |-> w1]
                      ELSE IF nt.value > monthly * 100
                      THEN [raised |-> FALSE,
                            out |-> w1 \o <<"warn_monthly_exceeded">>]
                      ELSE IF nt.value * 10 >= monthly * 100 * 8
                      THEN [raised |-> FALSE,
                            out |-> w1 \o <<"warn_monthly_approaching">>]
                      ELSE [raised |-> FALSE, out |-> w1]
             ELSE [raised |-> FALSE, out |-> w1]
    ELSE [raised |-> FALSE, out |-> <<>>]

limit_checks(u, user, transaction_type, amount, current_spent) ==
    IF transaction_type = "expense" /\ u \in users
    THEN LET w1 == IF GreaterThan(amount, transaction_limit(user))
                   THEN <<"warn_transaction_limit">> ELSE <<>>
             monthly == user.monthly_limit
         IN  IF monthly /= 0
             THEN LET nt == new_total(current_spent, amount)
                  IN  IF nt.raised THEN [raised |-> TRUE, out |-> w1]
                      ELSE IF nt.value > monthly * 100
                      THEN [raised |-> FALSE,
                            out |-> w1 \o <<"warn_monthly_exceeded">>]
                      ELSE IF nt.value * 10 >= monthly * 100 * 8
                      THEN [raised |-> FALSE,
                            out |-> w1 \o <<"warn_monthly_approaching">>]
                      ELSE [raised |-> FALSE, out |-> w1]
             ELSE [raised |-> FALSE, out |-> w1]
    ELSE [raised |-> FALSE, out |-> <<>>]

\* a row of table transactions: its owner and the columns update_transaction
\* has overwritten since the insert
Inserted(user_id) == [user_id |-> user_id, edited |-> {}]

\* create_transaction(user_id, transaction_type, amount, category_id,
\* description) called for draft d (0: no draft); ok: the insert succeeds
create_transaction(d, user_id, transaction_type, amount, category_id, description, ok) ==
    /\ commits' = IF d /= 0 THEN [commits EXCEPT ![user_id] = Append(@, ok)]
                  ELSE commits
    /\ tx_count' = IF ok THEN tx_count + 1 ELSE tx_count
    /\ transactions' = IF ok THEN Append(transactions, Inserted(user_id))
                       ELSE transactions

\* the keys a confirm handler reads with data[...] before create_transaction
HasCommitKeys(d) ==
    /\ d.transaction_type /= "absent"
    /\ d.user_id /= 0
    /\ d.amount.repr /= "absent"
    /\ d.category_id /= 0

\* the keys a confirmation page is built from with data[...]
HasConfirmationKeys(d) ==
    /\ d.transaction_type /= "absent"
    /\ d.amount.repr /= "absent"
    /\ d.category_name.k /= "absent"
    /\ d.category_emoji /= "absent"

(***************************************************************************)
(* Flow A: guided entry (src/handlers/transactions.py)                     *)
(***************************************************************************)
\* a text message reaches the transactions router unless a message handler
\* of the voice router, registered before it, takes it
ReachesTransactionsRouter(u) ==
    fsm[u] \notin {"editing_amount", "editing_description"}

\* "/add" without arguments
cmd_add_transaction(u) ==
    /\ flows < MaxFlows
    /\ ReachesTransactionsRouter(u)
    /\ users' = users \cup {u}
    /\ fsm' = [fsm EXCEPT ![u] = "choosing_type"]
    /\ data' = [data EXCEPT ![u].user_id = u]
    /\ flows' = flows + 1
    /\ draft' = [draft EXCEPT ![u] = flows + 1]
    /\ commits' = [commits EXCEPT ![u] = <<>>]
    /\ last' = Event(u, "cmd_add_transaction", "/add", "ok", <<"prompt_type">>)
    /\ UNCHANGED <<categories, tx_count, transactions, shown>>
    /\ UNCHANGED side

\* callback 'type:<t>'
process_type_selection(u, t) ==
    /\ fsm[u] = "choosing_type"
    /\ data' = [data EXCEPT ![u].transaction_type = t,
                            ![u].category_type =
                                IF t = "expense" THEN "expense" ELSE "income"]
    /\ fsm' = [fsm EXCEPT ![u] = "entering_amount"]
    /\ last' = Event(u, "process_type_selection", "type", "ok", <<"prompt_amount">>)
    /\ UNCHANGED <<categories, ledger, users, shown, flows, draft>>
    /\ UNCHANGED side

\* a text message in entering_amount; user: the limits in the row
\* get_or_create_user returns; current_spent: the month's expenses of the
\* user in table transactions, in hundredths
process_amount_input(u, text, user, current_spent) ==
    /\ fsm[u] = "entering_amount"
    /\ ReachesTransactionsRouter(u)
    /\ LET v == validate_amount(text)
           amount == AsDecimal(v.amount)
           chk == limit_checks(u, user, data[u].transaction_type, amount,
                               current_spent)
       IN  IF ~v.ok
           THEN /\ last' = Event(u, "process_amount_input", "text", v.err,
                                 <<"error_amount">>)
                /\ UNCHANGED <<fsm, data, shown>>
           ELSE IF chk.raised
           THEN /\ last' = Event(u, "process_amount_input", "text", "raised",
                                 chk.out \o <<"error_unexpected">>)
                /\ UNCHANGED <<fsm, data, shown>>
           ELSE /\ data' = [data EXCEPT ![u].amount = amount]
                /\ fsm' = [fsm EXCEPT ![u] = "choosing_category"]
                /\ shown' = [shown EXCEPT ![u] = @ \cup
                       {c \in DOMAIN categories :
                          \E i \in 1..Len(get_categories(data[u].user_id,
                                                         data[u].category_type)) :
                             get_categories(data[u].user_id,
                                            data[u].category_type)[i] = c}]
                /\ last' = IF data[u].user_id /= 0
                                 /\ data[u].category_type /= "absent"
                           THEN Event(u, "process_amount_input", "text", "ok",
                                      chk.out \o <<"prompt_category">>)
                           ELSE Event(u, "process_amount_input", "text",
                                      "raised_late",
                                      chk.out \o <<"error_unexpected">>)
    /\ UNCHANGED <<categories, ledger, users, flows, draft>>
    /\ UNCHANGED side

\* process_category_selection that asks for the description right after
\* 'category:custom', with no category in the draft
process_category_selection_unresolved(u, c) ==
    /\ fsm[u] = "choosing_category"
    /\ c \in {0} \cup shown[u]
    /\ IF c = 0
       THEN /\ fsm' = [fsm EXCEPT ![u] = "entering_description"]
            /\ last' = Event(u, "process_category_selection", "category:custom",
                             "ok", <<"prompt_custom_category">>)
            /\ UNCHANGED data
       ELSE IF get_category_by_id(c) = 0
       THEN /\ last' = Event(u, "process_category_selection", "category:id",
                             "not_found", <<"alert_not_found">>)
            /\ UNCHANGED <<fsm, data>>
       ELSE /\ data' = [data EXCEPT
                           ![u].category_id = c,
                           ![u].category_name = Text(categories[c].name),
                           ![u].category_emoji = categories[c].emoji]
            /\ fsm' = [fsm EXCEPT ![u] = "entering_description"]
            /\ last' = Event(u, "process_category_selection", "category:id",
                             "ok", <<"prompt_description">>)
    /\ UNCHANGED <<categories, ledger, users, shown, flows, draft>>
    /\ UNCHANGED side

\* callback 'category:custom' (c = 0) or 'category:<c>' of a keyboard the
\* user was shown
process_category_selection(u, c) ==
    /\ fsm[u] = "choosing_category"
    /\ c \in {0} \cup shown[u]
    /\ IF c = 0
       THEN /\ fsm' = [fsm EXCEPT ![u] = "entering_custom_category"]
            /\ last' = Event(u, "process_category_selection", "category:custom",
                             "ok", <<"prompt_custom_category">>)
            /\ UNCHANGED data
       ELSE IF get_category_by_id(c) = 0
       THEN /\ last' = Event(u, "process_category_selection", "category:id",
                             "not_found", <<"alert_not_found">>)
            /\ UNCHANGED <<fsm, data>>
       ELSE /\ data' = [data EXCEPT
                           ![u].category_id = c,
                           ![u].category_name = Text(categories[c].name),
                           ![u].category_emoji = categories[c].emoji]
            /\ fsm' = [fsm EXCEPT ![u] = "entering_description"]
            /\ last' = Event(u, "process_category_selection", "category:id",
                             "ok", <<"prompt_description">>)
    /\ UNCHANGED <<categories, ledger, users, shown, flows, draft>>
    /\ UNCHANGED side

\* a text message in entering_custom_category; dbOk: the insert succeeds
process_custom_category_input(u, text, dbOk) ==
    /\ fsm[u] = "entering_custom_category"
    /\ ReachesTransactionsRouter(u)
    /\ Cardinality({i \in DOMAIN categories : ~categories[i].is_default})
           < MaxCustomCategories
    /\ LET category_name == sanitize_text(text, MaxCategoryNameLen)
           verdict == validate_category_name(category_name)
           id == Len(categories) + 1
       IN  IF verdict /= "ok"
           THEN /\ last' = Event(u, "process_custom_category_input", "text",
                                 verdict, <<"error_category_name">>)
                /\ UNCHANGED <<fsm, data, categories>>
           ELSE IF ~dbOk
           THEN /\ last' = Event(u, "process_custom_category_input", "text",
                                 "db_error", <<"error_create_category">>)
                /\ UNCHANGED <<fsm, data, categories>>
           ELSE /\ categories' = Append(categories,
                       [name |-> category_name, type |-> data[u].category_type,
                        emoji |-> "pencil", is_default |-> FALSE,
                        user_id |-> data[u].user_id])
                /\ data' = [data EXCEPT
                               ![u].category_id = id,
                               ![u].category_name = Text(category_name),
                               ![u].category_emoji = "pencil"]
                /\ fsm' = [fsm EXCEPT ![u] = "entering_description"]
                /\ last' = Event(u, "process_custom_category_input", "text",
                                 "ok", <<"prompt_description">>)
    /\ UNCHANGED <<ledger, users, shown, flows, draft>>
    /\ UNCHANGED side

\* show_confirmation: the state is set before the draft is read
show_confirmation(u, d, handler, event) ==
    /\ fsm' = [fsm EXCEPT ![u] = "confirmation"]
    /\ data' = [data EXCEPT ![u] = d]
    /\ last' = IF HasConfirmationKeys(d)
               THEN Event(u, handler, event, "ok", <<"confirmation">>)
               ELSE Event(u, handler, event, "raised", <<"error_unexpected">>)

\* a text message in entering_description
process_description_input(u, text) ==
    /\ fsm[u] = "entering_description"
    /\ ReachesTransactionsRouter(u)
    /\ LET description == sanitize_text(text, MaxDescriptionLen)
           verdict == validate_description(description)
       IN  IF verdict /= "ok"
           THEN /\ last' = Event(u, "process_description_input", "text",
                                 verdict, <<"error_description">>)
                /\ UNCHANGED <<fsm, data>>
           ELSE show_confirmation(u,
                    [data[u] EXCEPT !.description = Text(description)],
                    "process_description_input", "text")
    /\ UNCHANGED <<categories, ledger, users, shown, flows, draft>>
    /\ UNCHANGED side

\* process_skip_description registered without its state filter
process_skip_description_anywhere(u) ==
    /\ fsm[u] \in {"entering_amount", "choosing_category",
                   "entering_custom_category", "entering_description"}
    /\ show_confirmation(u, [data[u] EXCEPT !.description = None],
                         "process_skip_description", "skip")
    /\ UNCHANGED <<categories, ledger, users, shown, flows, draft>>
    /\ UNCHANGED side

\* callback 'skip' in entering_description
process_skip_description(u) ==
    /\ fsm[u] = "entering_description"
    /\ show_confirmation(u, [data[u] EXCEPT !.description = None],
                         "process_skip_description", "skip")
    /\ UNCHANGED <<categories, ledger, users, shown, flows, draft>>
    /\ UNCHANGED side

\* process_confirmation whose except branch does not call state.clear()
process_confirmation_retry(u, action, dbOk) ==
    /\ fsm[u] = "confirmation"
    /\ IF action = "no"
       THEN /\ fsm' = Cleared(fsm, u)
            /\ data' = ClearedData(data, u)
            /\ last' = Event(u, "process_confirmation", "confirm:no", "cancelled",
                             <<"cancelled">>)
            /\ UNCHANGED ledger
       ELSE IF ~HasCommitKeys(data[u])
       THEN /\ fsm' = Cleared(fsm, u)
            /\ data' = ClearedData(data, u)
            /\ last' = Event(u, "process_confirmation", "confirm:yes", "raised",
                             <<"error_save">>)
            /\ UNCHANGED ledger
       ELSE /\ create_transaction(draft[u], data[u].user_id, data[u].transaction_type,
                        data[u].amount, data[u].category_id,
                        data[u].description, dbOk)
            /\ fsm' = IF dbOk THEN Cleared(fsm, u) ELSE fsm
            /\ data' = IF dbOk THEN ClearedData(data, u) ELSE data
            /\ last' = WithCall(
                   IF dbOk /\ HasConfirmationKeys(data[u])
                   THEN Event(u, "process_confirmation", "confirm:yes", "saved", <<"saved">>)
                   ELSE IF dbOk
                   THEN Event(u, "process_confirmation", "confirm:yes", "raised",
                              <<"error_save">>)
                   ELSE Event(u, "process_confirmation", "confirm:yes", "db_error",
                              <<"error_save">>),
                   draft[u], data[u].user_id, data[u].transaction_type,
                   data[u].amount, data[u].category_id, data[u].description,
                   dbOk)
    /\ UNCHANGED <<categories, users, shown, flows, draft>>
    /\ UNCHANGED side

\* callback 'confirm:<action>' in confirmation; dbOk: the insert succeeds
process_confirmation(u, action, dbOk) ==
    /\ fsm[u] = "confirmation"
    /\ IF action = "no"
       THEN /\ fsm' = Cleared(fsm, u)
            /\ data' = ClearedData(data, u)
            /\ last' = Event(u, "process_confirmation", "confirm:no", "cancelled",
                             <<"cancelled">>)
            /\ UNCHANGED ledger
       ELSE IF ~HasCommitKeys(data[u])
       THEN /\ fsm' = Cleared(fsm, u)
            /\ data' = ClearedData(data, u)
            /\ last' = Event(u, "process_confirmation", "confirm:yes", "raised",
                             <<"error_save">>)
            /\ UNCHANGED ledger
       ELSE /\ create_transaction(draft[u], data[u].user_id, data[u].transaction_type,
                        data[u].amount, data[u].category_id,
                        data[u].description, dbOk)
            /\ fsm' = Cleared(fsm, u)
            /\ data' = ClearedData(data, u)
            /\ last' = WithCall(
                   IF dbOk /\ HasConfirmationKeys(data[u])
                   THEN Event(u, "process_confirmation", "confirm:yes", "saved", <<"saved">>)
                   ELSE IF dbOk
                   THEN Event(u, "process_confirmation", "confirm:yes", "raised",
                              <<"error_save">>)
                   ELSE Event(u, "process_confirmation", "confirm:yes", "db_error",
                              <<"error_save">>),
                   draft[u], data[u].user_id, data[u].transaction_type,
                   data[u].amount, data[u].category_id, data[u].description,
                   dbOk)
    /\ UNCHANGED <<categories, users, shown, flows, draft>>
    /\ UNCHANGED side

\* callback 'cancel', in any state
process_cancel(u) ==
    /\ fsm' = Cleared(fsm, u)
    /\ data' = ClearedData(data, u)
    /\ last' = Event(u, "process_cancel", "cancel", "cancelled", <<"cancelled">>)
    /\ UNCHANGED <<categories, ledger, users, shown, flows, draft>>
    /\ UNCHANGED side

(***************************************************************************)
(* Flow B: quick text entry (handle_quick_add)                             *)
(***************************************************************************)
W_rashod == <<"r", "a", "s", "h", "o", "d">>

W_dohod == <<"d", "o", "h", "o", "d">>

\* the kind keywords of handle_quick_add
ExpenseWords ==
    { W_rashod, W_rashod \o <<"y">>, <<"t", "r", "a", "t", "a">>,
      <<"t", "r", "a", "t", "y">>, <<"e", "x", "p", "e", "n", "s", "e">> }

IncomeWords ==
    { W_dohod, W_dohod \o <<"y">>,
      <<"z", "a", "r", "a", "b", "o", "t", "o", "k">>,
      <<"i", "n", "c", "o", "m", "e">> }

\* the prefix "Kategoriya: " put in front of an unmatched category token
CategoryPrefix ==
    <<"K", "a", "t", "e", "g", "o", "r", "i", "y", "a", ":", " ">>

\* texts sent after "/add "
QuickTexts ==
    { Join(<<W_rashod, <<"5", "0", "0">>, <<"p", "r", "o", "d">> >>),
      Join(<<W_rashod, <<"5", "0", "0">>, <<"t", "a", "x", "i">>,
             <<"o", "b", "e", "d">> >>),
      Join(<<<<"D", "o", "h", "o", "d">>, <<"1", "2", ",", "5", "RUB">> >>),
      Join(<<W_dohod, <<"2", "0", "0", "0", "0", "0", "0", "0">> >>),
      Join(<<W_rashod, <<"0">> >>),
      Join(<<<<"f", "o", "o">>, <<"5", "0", "0">> >>),
      Join(<<W_rashod, <<"5", "0", "0">>, <<"t", "a", "x", "i">>,
             [i \in 1..(MaxDescriptionLen + 1) |-> "a"] >>),
      W_rashod }

\* first id of the list that is in the set, 0 if none
FirstWhere(ids, matching) ==
    IF \E i \in 1..Len(ids) : ids[i] \in matching
    THEN ids[CHOOSE i \in 1..Len(ids) :
                 /\ ids[i] \in matching
                 /\ \A j \in 1..(i - 1) : ids[j] \notin matching]
    ELSE 0

\* what handle_quick_add computes from the text: the error it answers with,
\* or the arguments it passes to create_transaction
quick_add_parse(user_id, args_text) ==
    LET parts == Split(args_text)
        Fail(e) == [err |-> e, type |-> "absent", amount |-> NoAmount,
                    category_id |-> 0, description |-> None]
    IN  IF Len(parts) < 2 THEN Fail("too_few")
        ELSE
        LET type_str == Lower(parts[1])
            kind == IF type_str \in ExpenseWords THEN "expense"
                    ELSE IF type_str \in IncomeWords THEN "income"
                    ELSE "unknown"
            amount == ParseNumber(CleanAmount(parts[2]))
        IN  IF kind = "unknown" THEN Fail("unknown_type")
            ELSE IF amount.k = "bad" THEN Fail("bad_amount")
            ELSE IF amount.k /= "nan" /\ NonPositive(amount) THEN Fail("bad_amount")
            ELSE
            LET cats == get_categories(user_id, kind)
                IsOther == {c \in DOMAIN categories : categories[c].name = Drugoe}
                other == FirstWhere(cats, IsOther)
                Matches == {c \in DOMAIN categories :
                               Contains(Lower(categories[c].name), Lower(parts[3]))}
                found == IF Len(parts) > 2 THEN FirstWhere(cats, Matches) ELSE 0
                category == IF Len(parts) > 2 /\ found /= 0 THEN found ELSE other
                description_parts ==
                    (IF Len(parts) > 2 /\ found = 0 /\ other /= 0
                     THEN <<CategoryPrefix \o parts[3]>> ELSE <<>>)
                    \o (IF Len(parts) > 3 THEN SubSeq(parts, 4, Len(parts))
                        ELSE <<>>)
            IN  IF category = 0 THEN Fail("no_category")
                ELSE [err |-> "none", type |-> kind, amount |-> AsFloat(amount),
                      category_id |-> category,
                      description |-> IF description_parts = <<>> THEN None
                                      ELSE Text(Join(description_parts))]

\* handle_quick_add that calls state.clear() after a saved entry
handle_quick_add_clearing(u, args_text, dbOk) ==
    /\ flows < MaxFlows
    /\ ReachesTransactionsRouter(u)
    /\ users' = users \cup {u}
    /\ LET q == quick_add_parse(u, args_text)
       IN  IF q.err /= "none"
           THEN /\ last' = Event(u, "handle_quick_add", "/add args", q.err,
                                 <<"error_quick_add">>)
                /\ UNCHANGED <<ledger, flows>>
           ELSE /\ create_transaction(0, u, q.type, q.amount, q.category_id,
                            q.description, dbOk)
                /\ flows' = flows + 1
                /\ last' = WithCall(
                       IF dbOk
                       THEN Event(u, "handle_quick_add", "/add args", "saved",
                                  <<"saved">>)
                       ELSE Event(u, "handle_quick_add", "/add args",
                                  "db_error", <<"error_save">>),
                       0, u, q.type, q.amount, q.category_id, q.description,
                       dbOk)
    /\ fsm' = IF quick_add_parse(u, args_text).err = "none" /\ dbOk
              THEN Cleared(fsm, u) ELSE fsm
    /\ data' = IF quick_add_parse(u, args_text).err = "none" /\ dbOk
               THEN ClearedData(data, u) ELSE data
    /\ UNCHANGED <<categories, shown, draft>>
    /\ UNCHANGED side

\* "/add <args>"; dbOk: the insert succeeds
handle_quick_add(u, args_text, dbOk) ==
    /\ flows < MaxFlows
    /\ ReachesTransactionsRouter(u)
    /\ users' = users \cup {u}
    /\ LET q == quick_add_parse(u, args_text)
       IN  IF q.err /= "none"
           THEN /\ last' = Event(u, "handle_quick_add", "/add args", q.err,
                                 <<"error_quick_add">>)
                /\ UNCHANGED <<ledger, flows>>
           ELSE /\ create_transaction(0, u, q.type, q.amount, q.category_id,
                            q.description, dbOk)
                /\ flows' = flows + 1
                /\ last' = WithCall(
                       IF dbOk
                       THEN Event(u, "handle_quick_add", "/add args", "saved",
                                  <<"saved">>)
                       ELSE Event(u, "handle_quick_add", "/add args",
                                  "db_error", <<"error_save">>),
                       0, u, q.type, q.amount, q.category_id, q.description,
                       dbOk)
    /\ UNCHANGED <<fsm, data, categories, shown, draft>>
    /\ UNCHANGED side

(***************************************************************************)
(* Flow C: voice (src/handlers/voice.py, src/services/openrouter_service)  *)
(***************************************************************************)
VoiceStates ==
    {"waiting_confirmation", "editing_amount", "editing_category",
     "editing_description"}

\* the transcript returned by transcribe_audio when it succeeds
Transcript == <<"k", "u", "p", "i", "l">>

\* decoded JSON objects the completion endpoint answers with; amount is
\* str(<JSON number>), or "None" for null
Responses ==
    { [type |-> "expense", amount |-> <<"5", "0", "0">>,
       category |-> Text(<<"p", "r", "o", "d">>), description |-> None],
      [type |-> "income", amount |-> <<"5", "0", "0">>,
       category |-> None, description |-> Text(<<"o", "b", "e", "d">>)],
      [type |-> "expense", amount |-> <<"1", ".", "2", "3", "4">>,
       category |-> Text(<<"t", "a", "x", "i">>), description |-> None],
      [type |-> "expense", amount |-> <<"0">>,
       category |-> None, description |-> None],
      [type |-> "transfer", amount |-> <<"5", "0", "0">>,
       category |-> None, description |-> None] }

\* what the two adapters do with a voice message: the transcription fails,
\* the extraction fails, or the completion endpoint answers
VoiceInputs ==
    { [transcribed |-> FALSE, answered |-> FALSE,
       resp |-> CHOOSE r \in Responses : r.type = "transfer"],
      [transcribed |-> TRUE, answered |-> FALSE,
       resp |-> CHOOSE r \in Responses : r.type = "transfer"] }
    \cup { [transcribed |-> TRUE, answered |-> TRUE, resp |-> r] :
             r \in Responses }

\* the validation parse_transaction_text applies to a decoded response
validate_response(resp) ==
    LET amount == ParseNumber(resp.amount)
    IN  IF resp.type \notin {"income", "expense"} THEN "bad_type"
        ELSE IF amount.k \in {"bad", "nan"} THEN "bad_amount"
        ELSE IF NonPositive(amount) THEN "bad_amount"
        ELSE IF GreaterThan(amount, MaxAmount) THEN "too_large"
        ELSE "ok"

\* find_matching_category(category_name, available_categories): the id, 0 if
\* not even the fallback exists
find_matching_category_partial_first(category_name, available) ==
    LET IsDefault == {c \in DOMAIN categories : categories[c].name = Drugoe}
        fallback == FirstWhere(available, IsDefault)
    IN  IF category_name.k /= "text" \/ category_name.v = <<>> THEN fallback
        ELSE
        LET lower == Strip(Lower(category_name.v))
            Partial == {c \in DOMAIN categories :
                           \/ Contains(Lower(categories[c].name), lower)
                           \/ Contains(lower, Lower(categories[c].name))}
        IN  IF FirstWhere(available, Partial) /= 0
            THEN FirstWhere(available, Partial)
            ELSE fallback

find_matching_category(category_name, available) ==
    LET IsDefault == {c \in DOMAIN categories : categories[c].name = Drugoe}
        fallback == FirstWhere(available, IsDefault)
    IN  IF category_name.k /= "text" \/ category_name.v = <<>> THEN fallback
        ELSE
        LET lower == Strip(Lower(category_name.v))
            Exact == {c \in DOMAIN categories : Lower(categories[c].name) = lower}
            Partial == {c \in DOMAIN categories :
                           \/ Contains(Lower(categories[c].name), lower)
                           \/ Contains(lower, Lower(categories[c].name))}
        IN  IF FirstWhere(available, Exact) /= 0
            THEN FirstWhere(available, Exact)
            ELSE IF FirstWhere(available, Partial) /= 0
            THEN FirstWhere(available, Partial)
            ELSE fallback

\* handle_voice_message that stores the transcript before it is parsed
handle_voice_message_eager(u, transcribed, answered, resp) ==
    /\ flows < MaxFlows
    /\ users' = users \cup {u}
    /\ IF ~transcribed
       THEN /\ last' = Event(u, "handle_voice_message", "voice",
                             "transcription_error", <<"error_transcription">>)
            /\ UNCHANGED <<fsm, data, flows, draft, commits>>
       ELSE IF ~answered
       THEN /\ last' = Event(u, "handle_voice_message", "voice",
                             "parsing_error", <<"error_parsing">>)
            /\ data' = [data EXCEPT ![u].recognized_text = Text(Transcript)]
            /\ UNCHANGED <<fsm, flows, draft, commits>>
       ELSE IF validate_response(resp) /= "ok"
       THEN /\ last' = Event(u, "handle_voice_message", "voice",
                             validate_response(resp), <<"error_parsing">>)
            /\ UNCHANGED <<fsm, data, flows, draft, commits>>
       ELSE
       LET category_type == IF resp.type = "expense" THEN "expense" ELSE "income"
           cats == get_categories(u, category_type)
           category_id == find_matching_category(resp.category, cats)
       IN  IF category_id = 0
           THEN /\ last' = Event(u, "handle_voice_message", "voice",
                                 "no_category", <<"error_category">>)
                /\ UNCHANGED <<fsm, data, flows, draft, commits>>
           ELSE /\ data' = [data EXCEPT
                       ![u].user_id = u,
                       ![u].transaction_type = resp.type,
                       ![u].amount = AsDecimal(ParseNumber(resp.amount)),
                       ![u].category_id = category_id,
                       ![u].category_name = Text(categories[category_id].name),
                       ![u].category_emoji = categories[category_id].emoji,
                       ![u].description = resp.description,
                       ![u].recognized_text = Text(Transcript)]
                /\ fsm' = [fsm EXCEPT ![u] = "waiting_confirmation"]
                /\ flows' = flows + 1
                /\ draft' = [draft EXCEPT ![u] = flows + 1]
                /\ commits' = [commits EXCEPT ![u] = <<>>]
                /\ last' = Event(u, "handle_voice_message", "voice", "ok",
                                 <<"voice_confirmation">>)
    /\ UNCHANGED <<categories, tx_count, transactions, shown>>
    /\ UNCHANGED side

\* a voice message; transcribed: transcribe_audio returns Transcript;
\* answered: parse_transaction_text obtains a decodable response, resp
handle_voice_message(u, transcribed, answered, resp) ==
    /\ flows < MaxFlows
    /\ users' = users \cup {u}
    /\ IF ~transcribed
       THEN /\ last' = Event(u, "handle_voice_message", "voice",
                             "transcription_error", <<"error_transcription">>)
            /\ UNCHANGED <<fsm, data, flows, draft, commits>>
       ELSE IF ~answered
       THEN /\ last' = Event(u, "handle_voice_message", "voice",
                             "parsing_error", <<"error_parsing">>)
            /\ UNCHANGED <<fsm, data, flows, draft, commits>>
       ELSE IF validate_response(resp) /= "ok"
       THEN /\ last' = Event(u, "handle_voice_message", "voice",
                             validate_response(resp), <<"error_parsing">>)
            /\ UNCHANGED <<fsm, data, flows, draft, commits>>
       ELSE
       LET category_type == IF resp.type = "expense" THEN "expense" ELSE "income"
           cats == get_categories(u, category_type)
           category_id == find_matching_category(resp.category, cats)
       IN  IF category_id = 0
           THEN /\ last' = Event(u, "handle_voice_message", "voice",
                                 "no_category", <<"error_category">>)
                /\ UNCHANGED <<fsm, data, flows, draft, commits>>
           ELSE /\ data' = [data EXCEPT
                       ![u].user_id = u,
                       ![u].transaction_type = resp.type,
                       ![u].amount = AsDecimal(ParseNumber(resp.amount)),
                       ![u].category_id = category_id,
                       ![u].category_name = Text(categories[category_id].name),
                       ![u].category_emoji = categories[category_id].emoji,
                       ![u].description = resp.description,
                       ![u].recognized_text = Text(Transcript)]
                /\ fsm' = [fsm EXCEPT ![u] = "waiting_confirmation"]
                /\ flows' = flows + 1
                /\ draft' = [draft EXCEPT ![u] = flows + 1]
                /\ commits' = [commits EXCEPT ![u] = <<>>]
                /\ last' = Event(u, "handle_voice_message", "voice", "ok",
                                 <<"voice_confirmation">>)
    /\ UNCHANGED <<categories, tx_count, transactions, shown>>
    /\ UNCHANGED side

\* process_voice_confirm without its two state.clear() calls
process_voice_confirm_kept(u, dbOk) ==
    /\ fsm[u] = "waiting_confirmation"
    /\ IF ~HasCommitKeys(data[u])
       THEN /\ last' = Event(u, "process_voice_confirm", "voice:confirm",
                             "raised", <<"error_save">>)
            /\ UNCHANGED ledger
       ELSE /\ create_transaction(draft[u], data[u].user_id, data[u].transaction_type,
                        data[u].amount, data[u].category_id,
                        data[u].description, dbOk)
            /\ last' = WithCall(
                   IF dbOk /\ HasConfirmationKeys(data[u])
                   THEN Event(u, "process_voice_confirm", "voice:confirm", "saved", <<"saved">>)
                   ELSE IF dbOk
                   THEN Event(u, "process_voice_confirm", "voice:confirm", "raised",
                              <<"error_save">>)
                   ELSE Event(u, "process_voice_confirm", "voice:confirm", "db_error",
                              <<"error_save">>),
                   draft[u], data[u].user_id, data[u].transaction_type,
                   data[u].amount, data[u].category_id, data[u].description,
                   dbOk)
    /\ UNCHANGED <<fsm, data>>
    /\ UNCHANGED <<categories, users, shown, flows, draft>>
    /\ UNCHANGED side

\* callback 'voice:confirm' in waiting_confirmation; dbOk: the insert succeeds
process_voice_confirm(u, dbOk) ==
    /\ fsm[u] = "waiting_confirmation"
    /\ IF ~HasCommitKeys(data[u])
       THEN /\ last' = Event(u, "process_voice_confirm", "voice:confirm",
                             "raised", <<"error_save">>)
            /\ UNCHANGED ledger
       ELSE /\ create_transaction(draft[u], data[u].user_id, data[u].transaction_type,
                        data[u].amount, data[u].category_id,
                        data[u].description, dbOk)
            /\ last' = WithCall(
                   IF dbOk /\ HasConfirmationKeys(data[u])
                   THEN Event(u, "process_voice_confirm", "voice:confirm", "saved", <<"saved">>)
                   ELSE IF dbOk
                   THEN Event(u, "process_voice_confirm", "voice:confirm", "raised",
                              <<"error_save">>)
                   ELSE Event(u, "process_voice_confirm", "voice:confirm", "db_error",
                              <<"error_save">>),
                   draft[u], data[u].user_id, data[u].transaction_type,
                   data[u].amount, data[u].category_id, data[u].description,
                   dbOk)
    /\ fsm' = Cleared(fsm, u)
    /\ data' = ClearedData(data, u)
    /\ UNCHANGED <<categories, users, shown, flows, draft>>
    /\ UNCHANGED side

\* callback 'voice:edit' in waiting_confirmation: the field menu
process_voice_edit(u) ==
    /\ fsm[u] = "waiting_confirmation"
    /\ last' = Event(u, "process_voice_edit", "voice:edit", "ok", <<"edit_menu">>)
    /\ UNCHANGED <<fsm, data, categories, ledger, users, shown,
                   flows, draft>>
    /\ UNCHANGED side

\* callback 'voice_edit:amount' in waiting_confirmation
process_voice_edit_amount(u) ==
    /\ fsm[u] = "waiting_confirmation"
    /\ fsm' = [fsm EXCEPT ![u] = "editing_amount"]
    /\ last' = Event(u, "process_voice_edit_amount", "voice_edit:amount", "ok",
                     <<"prompt_amount">>)
    /\ UNCHANGED <<data, categories, ledger, users, shown,
                   flows, draft>>
    /\ UNCHANGED side

\* texts sent in editing_amount
VoiceAmountTexts ==
    { <<"1", ".", "2", "3", "4">>,                      \* 1.234
      <<"0">>,
      <<"2", "0", "0", "0", "0", "0", "0">>,            \* 2000000
      <<"2", "0", "0", "0", "0", "0", "0", "0">>,       \* 20000000
      <<"n", "a", "n">> }

\* process_voice_amount_input that starts the draft again from the amount
process_voice_amount_input_afresh(u, text) ==
    /\ fsm[u] = "editing_amount"
    /\ LET amount == ParseNumber(CleanAmount(text))
       IN  IF amount.k \in {"bad", "nan"}
           THEN /\ last' = Event(u, "process_voice_amount_input", "text",
                                 "format", <<"error_amount">>)
                /\ UNCHANGED <<fsm, data>>
           ELSE IF NonPositive(amount)
           THEN /\ last' = Event(u, "process_voice_amount_input", "text",
                                 "non_positive", <<"error_amount">>)
                /\ UNCHANGED <<fsm, data>>
           ELSE IF GreaterThan(amount, MaxAmount)
           THEN /\ last' = Event(u, "process_voice_amount_input", "text",
                                 "too_large", <<"error_amount">>)
                /\ UNCHANGED <<fsm, data>>
           ELSE /\ data' = [data EXCEPT ![u] =
                               [EmptyData EXCEPT !.amount = AsDecimal(amount)]]
                /\ fsm' = [fsm EXCEPT ![u] = "waiting_confirmation"]
                /\ last' = Event(u, "process_voice_amount_input", "text", "ok",
                                 <<"voice_confirmation">>)
    /\ UNCHANGED <<categories, ledger, users, shown, flows,
                   draft>>
    /\ UNCHANGED side

\* a text message in editing_amount
process_voice_amount_input(u, text) ==
    /\ fsm[u] = "editing_amount"
    /\ LET amount == ParseNumber(CleanAmount(text))
       IN  IF amount.k \in {"bad", "nan"}
           THEN /\ last' = Event(u, "process_voice_amount_input", "text",
                                 "format", <<"error_amount">>)
                /\ UNCHANGED <<fsm, data>>
           ELSE IF NonPositive(amount)
           THEN /\ last' = Event(u, "process_voice_amount_input", "text",
                                 "non_positive", <<"error_amount">>)
                /\ UNCHANGED <<fsm, data>>
           ELSE IF GreaterThan(amount, MaxAmount)
           THEN /\ last' = Event(u, "process_voice_amount_input", "text",
                                 "too_large", <<"error_amount">>)
                /\ UNCHANGED <<fsm, data>>
           ELSE /\ data' = [data EXCEPT ![u].amount = AsDecimal(amount)]
                /\ fsm' = [fsm EXCEPT ![u] = "waiting_confirmation"]
                /\ last' = Event(u, "process_voice_amount_input", "text", "ok",
                                 <<"voice_confirmation">>)
    /\ UNCHANGED <<categories, ledger, users, shown, flows,
                   draft>>
    /\ UNCHANGED side

\* callback 'voice_edit:category' in waiting_confirmation
process_voice_edit_category(u) ==
    /\ fsm[u] = "waiting_confirmation"
    /\ fsm' = [fsm EXCEPT ![u] = "editing_category"]
    /\ last' = Event(u, "process_voice_edit_category", "voice_edit:category",
                     "ok", <<"prompt_category">>)
    /\ UNCHANGED <<data, categories, ledger, users, shown, flows, draft>>
    /\ UNCHANGED side

\* callback 'voice_cat:<c>' in editing_category
process_voice_category_selection(u, c) ==
    /\ fsm[u] = "editing_category"
    /\ LET category_type == IF data[u].transaction_type = "expense"
                            THEN "expense" ELSE "income"
           cats == get_categories(data[u].user_id, category_type)
       IN  IF ~\E i \in 1..Len(cats) : cats[i] = c
           THEN /\ last' = Event(u, "process_voice_category_selection",
                                 "voice_cat", "not_found", <<"alert_not_found">>)
                /\ UNCHANGED <<fsm, data>>
           ELSE /\ data' = [data EXCEPT
                               ![u].category_id = c,
                               ![u].category_name = Text(categories[c].name),
                               ![u].category_emoji = categories[c].emoji]
                /\ fsm' = [fsm EXCEPT ![u] = "waiting_confirmation"]
                /\ last' = Event(u, "process_voice_category_selection",
                                 "voice_cat", "ok", <<"voice_confirmation">>)
    /\ UNCHANGED <<categories, ledger, users, shown, flows,
                   draft>>
    /\ UNCHANGED side

\* callback 'voice_edit:description' in waiting_confirmation
process_voice_edit_description(u) ==
    /\ fsm[u] = "waiting_confirmation"
    /\ fsm' = [fsm EXCEPT ![u] = "editing_description"]
    /\ last' = Event(u, "process_voice_edit_description",
                     "voice_edit:description", "ok", <<"prompt_description">>)
    /\ UNCHANGED <<data, categories, ledger, users, shown,
                   flows, draft>>
    /\ UNCHANGED side

\* a text longer than the description limit
LongText == [i \in 1..(MaxDescriptionLen + 1) |-> "a"]

\* texts sent in editing_description
VoiceDescriptionTexts == {<<"o", "b", "e", "d">>, <<" ", "-">>, LongText}

\* process_voice_description_input that stores the first MaxDescriptionLen
\* characters of a text that is too long
process_voice_description_input_cut(u, text) ==
    /\ fsm[u] = "editing_description"
    /\ LET description == Strip(text)
       IN  IF description /= <<"-">> /\ Len(description) > MaxDescriptionLen
           THEN /\ last' = Event(u, "process_voice_description_input", "text",
                                 "too_long", <<"error_description">>)
                /\ data' = [data EXCEPT ![u].description =
                               Text(SubSeq(description, 1, MaxDescriptionLen))]
                /\ UNCHANGED fsm
           ELSE /\ data' = [data EXCEPT ![u].description =
                               IF description = <<"-">> THEN None
                               ELSE Text(description)]
                /\ fsm' = [fsm EXCEPT ![u] = "waiting_confirmation"]
                /\ last' = Event(u, "process_voice_description_input", "text",
                                 "ok", <<"voice_confirmation">>)
    /\ UNCHANGED <<categories, ledger, users, shown, flows,
                   draft>>
    /\ UNCHANGED side

\* a text message in editing_description
process_voice_description_input(u, text) ==
    /\ fsm[u] = "editing_description"
    /\ LET description == Strip(text)
       IN  IF description /= <<"-">> /\ Len(description) > MaxDescriptionLen
           THEN /\ last' = Event(u, "process_voice_description_input", "text",
                                 "too_long", <<"error_description">>)
                /\ UNCHANGED <<fsm, data>>
           ELSE /\ data' = [data EXCEPT ![u].description =
                               IF description = <<"-">> THEN None
                               ELSE Text(description)]
                /\ fsm' = [fsm EXCEPT ![u] = "waiting_confirmation"]
                /\ last' = Event(u, "process_voice_description_input", "text",
                                 "ok", <<"voice_confirmation">>)
    /\ UNCHANGED <<categories, ledger, users, shown, flows,
                   draft>>
    /\ UNCHANGED side

\* callback 'voice:back_to_confirm' in any voice state
process_voice_back_to_confirm(u) ==
    /\ fsm[u] \in VoiceStates
    /\ fsm' = [fsm EXCEPT ![u] = "waiting_confirmation"]
    /\ last' = Event(u, "process_voice_back_to_confirm", "voice:back_to_confirm",
                     "ok", <<"voice_confirmation">>)
    /\ UNCHANGED <<data, categories, ledger, users, shown,
                   flows, draft>>
    /\ UNCHANGED side

\* callback 'voice:back_to_edit_menu' in any voice state
process_voice_back_to_edit_menu(u) ==
    /\ fsm[u] \in VoiceStates
    /\ fsm' = [fsm EXCEPT ![u] = "waiting_confirmation"]
    /\ last' = Event(u, "process_voice_back_to_edit_menu",
                     "voice:back_to_edit_menu", "ok", <<"edit_menu">>)
    /\ UNCHANGED <<data, categories, ledger, users, shown,
                   flows, draft>>
    /\ UNCHANGED side

\* process_voice_cancel that resets the state and keeps the data
process_voice_cancel_state_only(u) ==
    /\ fsm[u] \in VoiceStates
    /\ fsm' = Cleared(fsm, u)
    /\ UNCHANGED data
    /\ last' = Event(u, "process_voice_cancel", "voice:cancel", "cancelled",
                     <<"cancelled">>)
    /\ UNCHANGED <<categories, ledger, users, shown, flows,
                   draft>>
    /\ UNCHANGED side

\* callback 'voice:cancel' in any voice state
process_voice_cancel(u) ==
    /\ fsm[u] \in VoiceStates
    /\ fsm' = Cleared(fsm, u)
    /\ data' = ClearedData(data, u)
    /\ last' = Event(u, "process_voice_cancel", "voice:cancel", "cancelled",
                     <<"cancelled">>)
    /\ UNCHANGED <<categories, ledger, users, shown, flows,
                   draft>>
    /\ UNCHANGED side

(***************************************************************************)
(* Dispatch                                                                *)
(***************************************************************************)
\* a confirm button pressed in a state no handler is registered for: the
\* dispatcher finds no handler in the routers and the update is dropped
unhandled_confirm(u, event) ==
    /\ \/ event = "confirm:yes" /\ fsm[u] /= "confirmation"
       \/ event = "voice:confirm" /\ fsm[u] /= "waiting_confirmation"
    /\ last' = Event(u, "unhandled", event, "dropped", <<>>)
    /\ UNCHANGED <<fsm, data, categories, ledger, users, shown,
                   flows, draft>>
    /\ UNCHANGED side

Next ==
    \/ \E u \in Users : cmd_add_transaction(u)
    \/ \E u \in Users, t \in {"income", "expense"} : process_type_selection(u, t)
    \/ \E u \in Users, text \in AmountTexts, user \in LimitSettings,
          current_spent \in SpentSamples :
           process_amount_input(u, text, user, current_spent)
    \/ \E u \in Users, c \in 0..Len(categories) : process_category_selection(u, c)
    \/ \E u \in Users, text \in CategoryTexts, dbOk \in BOOLEAN :
           process_custom_category_input(u, text, dbOk)
    \/ \E u \in Users, text \in DescriptionTexts : process_description_input(u, text)
    \/ \E u \in Users : process_skip_description(u)
    \/ \E u \in Users, action \in {"yes", "no"}, dbOk \in BOOLEAN :
           process_confirmation(u, action, dbOk)
    \/ \E u \in Users : process_cancel(u)
    \/ \E u \in Users, text \in QuickTexts, dbOk \in BOOLEAN :
           handle_quick_add(u, text, dbOk)
    \/ \E u \in Users, v \in VoiceInputs :
           handle_voice_message(u, v.transcribed, v.answered, v.resp)
    \/ \E u \in Users, dbOk \in BOOLEAN : process_voice_confirm(u, dbOk)
    \/ \E u \in Users : process_voice_edit(u)
    \/ \E u \in Users : process_voice_edit_amount(u)
    \/ \E u \in Users, text \in VoiceAmountTexts :
           process_voice_amount_input(u, text)
    \/ \E u \in Users : process_voice_edit_category(u)
    \/ \E u \in Users, c \in 1..Len(categories) :
           process_voice_category_selection(u, c)
    \/ \E u \in Users : process_voice_edit_description(u)
    \/ \E u \in Users, text \in VoiceDescriptionTexts :
           process_voice_description_input(u, text)
    \/ \E u \in Users : process_voice_back_to_confirm(u)
    \/ \E u \in Users : process_voice_back_to_edit_menu(u)
    \/ \E u \in Users : process_voice_cancel(u)
    \/ \E u \in Users, event \in {"confirm:yes", "voice:confirm"} :
           unhandled_confirm(u, event)

Spec == Init /\ [][Next]_vars

(***************************************************************************)
(* Properties                                                              *)
(*                                                                         *)
(* The handlers are taken as atomic and the calls to the messaging         *)
(* transport (answer, edit_text) as succeeding.  `last` describes the      *)
(* event whose handler produced the current state, so a property of "the   *)
(* turn that ..." reads last' in a step and last in the state after it.    *)
(***************************************************************************)
ConfirmHandlers == {"process_confirmation", "process_voice_confirm"}

\* the results with which a text turn is rejected by validation
ValidationErrors ==
    {"format", "non_positive", "too_large", "too_many_decimals", "too_short",
     "too_long", "unsafe"}

TextHandlers ==
    {"process_amount_input", "process_custom_category_input",
     "process_description_input", "process_voice_amount_input",
     "process_voice_description_input"}

\* the handler of the last event called create_transaction
Called == last.call /= NoCall

C2_Available ==
    \A u \in Users :
        /\ fsm[u] \in {"choosing_type", "entering_amount", "choosing_category",
                       "entering_custom_category", "entering_description"}
              => ENABLED process_cancel(u)
        /\ fsm[u] = "confirmation"
              => ENABLED (\E dbOk \in BOOLEAN : process_confirmation(u, "no", dbOk))
        /\ fsm[u] \in VoiceStates => ENABLED process_voice_cancel(u)

C2_Step ==
    \A u \in Users :
        /\ (last'.user = u /\ last'.result = "cancelled")
              => /\ fsm'[u] = "none"
                 /\ data'[u] = EmptyData
                 /\ UNCHANGED ledger
        /\ fsm[u] = "none" => Len(commits'[u]) <= Len(commits[u])

C2_CancelAnywhere == [][C2_Step]_vars /\ []C2_Available

\* a voice draft was cancelled: the slot is empty and nothing was committed
\* for the draft
C2_Witness ==
    /\ last.handler = "process_voice_cancel"
    /\ fsm[last.user] = "none"
    /\ data[last.user] = EmptyData
    /\ draft[last.user] /= 0
    /\ commits[last.user] = <<>>

\* C3: limit warnings never block.  A turn of EnteringAmount whose text
\* validate_amount accepts ends in ChoosingCategory with the amount stored
\* in the draft, whatever the limits of the owner are.
C3_NeverBlocks ==
    (last.handler = "process_amount_input" /\ last.result \notin ValidationErrors)
       => /\ fsm[last.user] = "choosing_category"
          /\ data[last.user].amount.repr /= "absent"

\* C4: the category stored with a committed transaction has the type that
\* is the kind of the transaction.
C4_CategoryOfKind ==
    (Called /\ last.call.ok)
       => /\ last.call.category_id \in DOMAIN categories
          /\ categories[last.call.category_id].type = last.call.type

\* C5: every amount passed to create_transaction is strictly positive, at
\* most 10,000,000 and has at most 2 fractional digits.
C5_AmountValid ==
    Called
       => /\ last.call.amount.k = "fin"
          /\ ~NonPositive(last.call.amount)
          /\ ~GreaterThan(last.call.amount, MaxAmount)
          /\ last.call.amount.exp >= 0 - 2

\* owner id, kind, amount, category id, category name and glyph are set
FullyResolved(d) ==
    /\ d.user_id /= 0
    /\ d.transaction_type \in {"income", "expense"}
    /\ d.amount.repr /= "absent"
    /\ d.category_id \in DOMAIN categories
    /\ d.category_name.k = "text"
    /\ d.category_emoji /= "absent"

\* C6: a draft is never committed with an unresolved category.  In
\* Confirmation and in WaitingConfirmation the draft is fully resolved, and
\* every create_transaction call carries the id of a category.
C6_Resolved ==
    /\ \A u \in Users :
           fsm[u] \in {"confirmation", "waiting_confirmation"}
              => FullyResolved(data[u])
    /\ Called => last.call.category_id \in DOMAIN categories

\* the confirmation page of a guided draft with a custom category
C6_Witness ==
    \E u \in Users :
        /\ fsm[u] = "confirmation"
        /\ last.handler = "process_skip_description"
        /\ ~categories[data[u].category_id].is_default

\* C7: a commit failure is fatal to the flow.  The step in which
\* create_transaction raises in a confirm handler clears the owner's state
\* slot and draft and adds no transaction, and after a failed call no
\* further call is made for that draft.
C7_Step ==
    \A u \in Users :
        /\ (last'.user = u /\ last'.handler \in ConfirmHandlers
               /\ last'.result = "db_error")
              => /\ fsm'[u] = "none"
                 /\ data'[u] = EmptyData
                 /\ tx_count' = tx_count
        /\ (commits[u] /= <<>> /\ ~commits[u][1])
              => commits'[u] \in {commits[u], <<>>}

C8_Step ==
    (last'.handler \in TextHandlers /\ last'.result \in ValidationErrors)
       => UNCHANGED <<fsm, data, categories, ledger>>

C8_RepromptInPlace == [][C8_Step]_vars

\* a description that is too long was rejected in EditingDescription
C8_Witness ==
    /\ last.handler = "process_voice_description_input"
    /\ last.result = "too_long"
    /\ fsm[last.user] = "editing_description"

\* C9: adapter failures abort the voice flow before any dialog state is
\* created.  A voice message that does not end with the confirmation page
\* leaves the state slots, the drafts and the tables as they were.
C9_Step ==
    (last'.handler = "handle_voice_message" /\ last'.result /= "ok")
       => UNCHANGED <<fsm, data, categories, ledger, draft>>

C9_NoStateOnFailure == [][C9_Step]_vars

\* a voice message failed while a guided draft was in flight
C9_Witness ==
    /\ last.handler = "handle_voice_message"
    /\ last.result \in {"transcription_error", "parsing_error", "no_category"}
    /\ fsm[last.user] = "entering_amount"

\* C10: quick text entry keeps no dialog state.  No step of handle_quick_add
\* changes a state slot or a draft.
C10_Step == last'.handler = "handle_quick_add" => UNCHANGED <<fsm, data>>

C10_QuickAddKeepsNoState == [][C10_Step]_vars

\* a quick entry was saved while a guided draft waited in Confirmation
C10_Witness ==
    /\ last.handler = "handle_quick_add"
    /\ last.result = "saved"
    /\ fsm[last.user] = "confirmation"

\* the kind the first token of a quick entry stands for
QuickKind(args_text) ==
    LET parts == Split(args_text)
    IN  IF parts = <<>> THEN "unknown"
        ELSE IF Lower(parts[1]) \in ExpenseWords THEN "expense"
        ELSE IF Lower(parts[1]) \in IncomeWords THEN "income"
        ELSE "unknown"

\* the conditions under which a quick entry is to be committed: a kind
\* keyword, a valid amount, and a category (one that matches the third token,
\* or the fallback) among the owner's candidates of the kind
QuickAddCommits(u, args_text) ==
    LET parts == Split(args_text)
        candidates == get_categories(u, QuickKind(args_text))
    IN  /\ Len(parts) >= 2
        /\ QuickKind(args_text) /= "unknown"
        /\ validate_amount(parts[2]).ok
        /\ \E i \in 1..Len(candidates) :
              \/ categories[candidates[i]].name = Drugoe
              \/ /\ Len(parts) > 2
                 /\ Contains(Lower(categories[candidates[i]].name),
                             Lower(parts[3]))

\* C11: quick text entry calls create_transaction exactly once when the
\* first token is a kind keyword, the second a valid amount and a category
\* exists, and not at all on every failure path.
C11_Step ==
    \A u \in Users, args_text \in QuickTexts, dbOk \in BOOLEAN :
        handle_quick_add(u, args_text, dbOk)
           => IF QuickAddCommits(u, args_text)
              THEN /\ last'.call /= NoCall
                   /\ tx_count' = tx_count + (IF dbOk THEN 1 ELSE 0)
              ELSE /\ last'.call = NoCall
                   /\ tx_count' = tx_count

C11_QuickAddOnce == [][C11_Step]_vars

\* ------------------------------------------------------------------------
\* Updates handled as concurrent tasks.  main() builds Dispatcher() with no
\* events isolation and calls start_polling with its defaults, under which
\* every update received is handed to a task of its own; a task runs until
\* its next await and any other task may run then.  The steps below are the
\* stretches of process_confirmation and process_cancel between their awaits
\* that read or write the owner's slot or the transactions table.

MaxUpdates == 3

Owner == CHOOSE u \in Users : TRUE

PressEvents == {"confirm:yes", "confirm:no", "cancel"}

\* a guided draft as show_confirmation leaves it
ConfirmationDraft(t) ==
    [EmptyData EXCEPT !.user_id = Owner, !.transaction_type = t,
                      !.category_type = t,
                      !.amount = AsDecimal([k |-> "fin", neg |-> FALSE,
                                            coef |-> 500, exp |-> 0]),
                      !.category_id = IF t = "expense" THEN 1 ELSE 3,
                      !.category_name = Text(IF t = "expense" THEN Produkty
                                             ELSE Zarplata),
                      !.category_emoji = "emoji"]

Task(event, at, d) == [event |-> event, at |-> at, data |-> d]

InitPolling ==
    /\ fsm = [u \in Users |-> "confirmation"]
    /\ \E t \in {"income", "expense"} :
          data = [u \in Users |-> ConfirmationDraft(t)]
    /\ categories = SeedCategories
    /\ tx_count = 0
    /\ transactions = <<>>
    /\ NoLimiter
    /\ commits = [u \in Users |-> <<>>]
    /\ users = Users
    /\ shown = [u \in Users |-> {}]
    /\ flows = 1
    /\ draft = [u \in Users |-> 1]
    /\ last = NoEvent
    /\ NoTasks
    /\ NoFunction
    /\ NoCallers
    /\ NoParse

\* start_polling receives an update of the owner and creates its task
feed_update(event) ==
    /\ Len(tasks) < MaxUpdates
    /\ tasks' = Append(tasks, Task(event, "created", EmptyData))
    /\ UNCHANGED <<dialogs, whisper, parsing, pure, limiter>>

\* the filters of the handlers are evaluated against the owner's state
check_filters(i) ==
    /\ i <= Len(tasks)
    /\ tasks[i].at = "created"
    /\ tasks' = [tasks EXCEPT ![i].at =
                    IF tasks[i].event = "cancel" THEN "process_cancel"
                    ELSE IF fsm[Owner] = "confirmation"
                    THEN "process_confirmation"
                    ELSE "unhandled"]
    /\ UNCHANGED <<dialogs, whisper, parsing, pure, limiter>>

\* process_confirmation, action "no": await state.clear()
confirmation_no(i) ==
    /\ i <= Len(tasks)
    /\ tasks[i].at = "process_confirmation"
    /\ tasks[i].event = "confirm:no"
    /\ fsm' = Cleared(fsm, Owner)
    /\ data' = ClearedData(data, Owner)
    /\ tasks' = [tasks EXCEPT ![i].at = "done"]
    /\ UNCHANGED <<categories, ledger, users, shown, flows, draft, last>>
    /\ UNCHANGED <<whisper, parsing, pure, limiter>>

\* process_confirmation, action "yes": data = await state.get_data()
confirmation_get_data(i) ==
    /\ i <= Len(tasks)
    /\ tasks[i].at = "process_confirmation"
    /\ tasks[i].event = "confirm:yes"
    /\ tasks' = [tasks EXCEPT ![i] = Task(@.event, "got_data", data[Owner])]
    /\ UNCHANGED <<dialogs, whisper, parsing, pure, limiter>>

\* process_confirmation: await create_transaction(...) on the data read
confirmation_create(i, dbOk) ==
    /\ i <= Len(tasks)
    /\ tasks[i].at = "got_data"
    /\ IF ~HasCommitKeys(tasks[i].data)
       THEN /\ tasks' = [tasks EXCEPT ![i].at = "failed"]
            /\ UNCHANGED <<ledger, last>>
       ELSE /\ create_transaction(draft[Owner], tasks[i].data.user_id,
                        tasks[i].data.transaction_type, tasks[i].data.amount,
                        tasks[i].data.category_id, tasks[i].data.description,
                        dbOk)
            /\ tasks' = [tasks EXCEPT ![i].at =
                            IF dbOk THEN "saved" ELSE "failed"]
            /\ last' = WithCall(
                   Event(Owner, "process_confirmation", "confirm:yes",
                         IF dbOk THEN "saved" ELSE "db_error", <<>>),
                   draft[Owner], tasks[i].data.user_id,
                   tasks[i].data.transaction_type, tasks[i].data.amount,
                   tasks[i].data.category_id, tasks[i].data.description, dbOk)
    /\ UNCHANGED <<fsm, data, categories, users, shown, flows, draft>>
    /\ UNCHANGED <<whisper, parsing, pure, limiter>>

\* process_confirmation: await state.clear(), on either branch of the try
confirmation_clear(i) ==
    /\ i <= Len(tasks)
    /\ tasks[i].at \in {"saved", "failed"}
    /\ fsm' = Cleared(fsm, Owner)
    /\ data' = ClearedData(data, Owner)
    /\ tasks' = [tasks EXCEPT ![i].at = "done"]
    /\ UNCHANGED <<categories, ledger, users, shown, flows, draft, last>>
    /\ UNCHANGED <<whisper, parsing, pure, limiter>>

\* process_cancel: await state.clear()
cancel_clear(i) ==
    /\ i <= Len(tasks)
    /\ tasks[i].at = "process_cancel"
    /\ fsm' = Cleared(fsm, Owner)
    /\ data' = ClearedData(data, Owner)
    /\ tasks' = [tasks EXCEPT ![i].at = "done"]
    /\ UNCHANGED <<categories, ledger, users, shown, flows, draft, last>>
    /\ UNCHANGED <<whisper, parsing, pure, limiter>>

NextPolling ==
    \/ \E event \in PressEvents : feed_update(event)
    \/ \E i \in 1..MaxUpdates : check_filters(i)
    \/ \E i \in 1..MaxUpdates : confirmation_no(i)
    \/ \E i \in 1..MaxUpdates : confirmation_get_data(i)
    \/ \E i \in 1..MaxUpdates, dbOk \in BOOLEAN : confirmation_create(i, dbOk)
    \/ \E i \in 1..MaxUpdates : confirmation_clear(i)
    \/ \E i \in 1..MaxUpdates : cancel_clear(i)

SpecPolling == InitPolling /\ [][NextPolling]_vars

\* a task that has passed the state check of process_confirmation and has
\* not yet cleared the slot
Confirming(i) ==
    /\ tasks[i].event = "confirm:yes"
    /\ tasks[i].at \in {"process_confirmation", "got_data", "saved", "failed"}

\* C12: each user's events are handled one at a time in arrival order, so
\* the state check and the later state.clear() of one confirm are never
\* interleaved with another confirm of the same owner, and two confirm
\* presses never both reach create_transaction.
C12_OneAtATime ==
    /\ \A i, j \in 1..Len(tasks) :
          (Confirming(i) /\ Confirming(j)) => i = j
    /\ Len(commits[Owner]) <= 1

\* ------------------------------------------------------------------------
\* Lazy loading of the speech model.  transcribe_audio runs inside the
\* update tasks, so several coroutines can be inside _load_whisper_model at
\* once; each step below is the stretch of it between two awaits.  The
\* process starts here with the model not loaded: the load made by
\* initialize_whisper at startup failed, which main() logs and survives.

MaxCallers == 3

InitWhisper ==
    /\ fsm = [u \in Users |-> "none"]
    /\ data = [u \in Users |-> EmptyData]
    /\ categories = SeedCategories
    /\ tx_count = 0
    /\ transactions = <<>>
    /\ NoLimiter
    /\ commits = [u \in Users |-> <<>>]
    /\ users = {}
    /\ shown = [u \in Users |-> {}]
    /\ flows = 0
    /\ draft = [u \in Users |-> 0]
    /\ last = NoEvent
    /\ NoTasks
    /\ NoFunction
    /\ NoParse
    /\ whisper_model = 0
    /\ callers = <<>>
    /\ loads = 0

\* the callers that have begun a load and not finished it
Loading == {i \in 1..Len(callers) : callers[i] \in {"download_model", "Model"}}

\* transcribe_audio: model = await _load_whisper_model()
transcribe_audio ==
    /\ Len(callers) < MaxCallers
    /\ callers' = Append(callers, "called")
    /\ UNCHANGED <<whisper_model, loads>>
    /\ UNCHANGED <<dialogs, polling, parsing, pure, limiter>>

\* _load_whisper_model: if _whisper_model is None, up to its first await
load_always(i) ==
    /\ i <= Len(callers)
    /\ callers[i] = "called"
    /\ callers' = [callers EXCEPT ![i] = "download_model"]
    /\ loads' = loads + 1
    /\ UNCHANGED whisper_model
    /\ UNCHANGED <<dialogs, polling, parsing, pure, limiter>>

load_if_none(i) ==
    /\ i <= Len(callers)
    /\ callers[i] = "called"
    /\ IF whisper_model = 0
       THEN /\ callers' = [callers EXCEPT ![i] = "download_model"]
            /\ loads' = loads + 1
       ELSE /\ callers' = [callers EXCEPT ![i] = "returned"]
            /\ UNCHANGED loads
    /\ UNCHANGED whisper_model
    /\ UNCHANGED <<dialogs, polling, parsing, pure, limiter>>

\* model_path = await asyncio.to_thread(download_model, ...) is over
download_model(i, ok) ==
    /\ i <= Len(callers)
    /\ callers[i] = "download_model"
    /\ callers' = [callers EXCEPT ![i] = IF ok THEN "Model" ELSE "raised"]
    /\ UNCHANGED <<whisper_model, loads>>
    /\ UNCHANGED <<dialogs, polling, parsing, pure, limiter>>

\* _whisper_model = await asyncio.to_thread(Model, ...) is over
build_model(i, ok) ==
    /\ i <= Len(callers)
    /\ callers[i] = "Model"
    /\ IF ok
       THEN /\ whisper_model' = i
            /\ callers' = [callers EXCEPT ![i] = "returned"]
       ELSE /\ callers' = [callers EXCEPT ![i] = "raised"]
            /\ UNCHANGED whisper_model
    /\ UNCHANGED loads
    /\ UNCHANGED <<dialogs, polling, parsing, pure, limiter>>

NextWhisper ==
    \/ transcribe_audio
    \/ \E i \in 1..MaxCallers : load_if_none(i)
    \/ \E i \in 1..MaxCallers, ok \in BOOLEAN : download_model(i, ok)
    \/ \E i \in 1..MaxCallers, ok \in BOOLEAN : build_model(i, ok)

SpecWhisper == InitWhisper /\ [][NextWhisper]_vars

\* C13: the speech model is loaded at most once per process: whatever the
\* interleaving of the concurrent callers while the model is not loaded, at
\* most one load is in progress, and a model that has been loaded is never
\* replaced by another.
C13_Step == whisper_model /= 0 => whisper_model' = whisper_model

C13_SingleLoad ==
    /\ [](Cardinality(Loading) <= 1)
    /\ [][C13_Step]_vars

\* ------------------------------------------------------------------------
\* One call of parse_transaction_text.  Time is counted in tenths of a
\* second.  A request that times out takes its whole timeout, any other
\* request ends before it; a backoff sleep takes the delay computed for it.

MaxRetries == 4

\* the defaults: 3 attempts, 10 s for one request, 25 s in all; a base delay
\* of 0.5 s and a jitter of 20 per cent of it, all in tenths of a second
agentrouter_max_retries == 3
agentrouter_timeout == 100
agentrouter_total_deadline == 250
base_delay == 5
jitter_tenth == 1

DefaultSettings ==
    [agentrouter_max_retries |-> agentrouter_max_retries,
     agentrouter_timeout |-> agentrouter_timeout,
     agentrouter_total_deadline |-> agentrouter_total_deadline]

\* the settings the environment can give: any number of attempts
SettingsSamples ==
    {[DefaultSettings EXCEPT !.agentrouter_max_retries = n] : n \in 0..MaxRetries}

\* how a request can end: a timeout, status 200 with a transaction in it,
\* status 401, another status, a body that is not the expected JSON
\* (JSONDecodeError, KeyError), a transaction whose type or amount is not
\* valid (ParsingError), any other exception
Outcomes ==
    {"timeout", "ok", "status_401", "status_500", "bad_json", "bad_data",
     "exception"}

\* the failures after which the loop goes on
Retryable == {"timeout", "status_500", "bad_json", "exception"}

\* the literal 10_000_000 the amount of a response is compared with
max_parsed_amount == 10000000

\* a value of the JSON object: a key that is absent, null, a string, a number
JsonAbsent == [json |-> "absent", text |-> <<>>]

JsonNull == [json |-> "null", text |-> <<>>]

JsonString(text) == [json |-> "string", text |-> text]

JsonNumber(text) == [json |-> "number", text |-> text]

\* the amounts a response can carry: none, null, "abc", "NaN", 0, 500,
\* 10000000, 10000000.01
AmountValues ==
    {JsonAbsent, JsonNull, JsonString(<<"a", "b", "c">>),
     JsonString(<<"N", "a", "N">>), JsonNumber(<<"0">>),
     JsonNumber(<<"5", "0", "0">>),
     JsonNumber(<<"1", "0", "0", "0", "0", "0", "0", "0">>),
     JsonNumber(<<"1", "0", "0", "0", "0", "0", "0", "0", ".", "0", "1">>)}

\* what json.loads(content) can give: an expense with any of the amounts, an
\* income or a transfer of 500, or a value that is no object (an array)
DecodedSamples ==
    {[shape |-> "object", type |-> "expense", json |-> v.json,
      text |-> v.text] : v \in AmountValues}
    \cup {[shape |-> "object", type |-> t, json |-> "number",
            text |-> <<"5", "0", "0">>] : t \in {"income", "transfer"}}
    \cup {[shape |-> "array", type |-> "none", json |-> "absent",
            text |-> <<>>]}

\* str(transaction_data.get("amount", 0))
str_amount(r) ==
    CASE r.json = "absent" -> <<"0">>
      [] r.json = "null" -> <<"N", "o", "n", "e">>
      [] OTHER -> r.text

\* the lines from transaction_data.get("type") to the return, by the way
\* they are left: "ok" (return), "bad_data" (a ParsingError is raised),
\* "exception" (another exception is raised: AttributeError of .get on a
\* value that is no object, InvalidOperation of comparing a NaN)
validate_data(r) ==
    IF r.shape /= "object" THEN "exception"
    ELSE IF r.type \notin {"income", "expense"} THEN "bad_data"
    ELSE LET amount == ParseNumber(str_amount(r))
         IN  IF amount.k = "bad" THEN "bad_data"
             ELSE IF amount.k = "nan" THEN "exception"
             ELSE IF NonPositive(amount) THEN "bad_data"
             ELSE IF GreaterThan(amount, max_parsed_amount) THEN "bad_data"
             ELSE "ok"

\* the decoded responses by the way the validation is left
Validated ==
    [way \in {"ok", "bad_data", "exception"} |->
        {r \in DecodedSamples : validate_data(r) = way}]

\* the decoded responses with which a request ends in a given way; a request
\* that does not get as far as json.loads leaves transaction_data unbound
DecodedAs(outcome) ==
    IF outcome \in {"ok", "bad_data"} THEN Validated[outcome]
    ELSE IF outcome = "exception" THEN {NoResponse} \cup Validated[outcome]
    ELSE {NoResponse}

\* the ParsingError a request's ending leads to
ErrorOf(outcome) ==
    CASE outcome = "timeout" -> "timeout"
      [] outcome = "status_401" -> "invalid_credentials"
      [] outcome = "status_500" -> "status"
      [] outcome = "bad_json" -> "bad_response"
      [] outcome = "bad_data" -> "invalid_data"
      [] outcome = "exception" -> "unexpected"
      [] OTHER -> "none"

\* time a request that does not time out takes
ResponseTime == 1

Min(a, b) == IF a < b THEN a ELSE b

RECURSIVE Pow2(_)
Pow2(n) == IF n = 0 THEN 1 ELSE 2 * Pow2(n - 1)

\* attempt_timeout = min(settings.agentrouter_timeout, remaining_time)
attempt_timeout_full == settings.agentrouter_timeout

attempt_timeout ==
    Min(settings.agentrouter_timeout,
        settings.agentrouter_total_deadline - clock)

\* _calculate_backoff_delay: base_delay * 2^attempt, with a jitter of up to
\* 20 per cent either way
Jitter == {-1, 0, 1}

_calculate_backoff_delay(n, j) ==
    base_delay * Pow2(n) + j * jitter_tenth * Pow2(n)

InitParse ==
    /\ fsm = [u \in Users |-> "none"]
    /\ data = [u \in Users |-> EmptyData]
    /\ categories = SeedCategories
    /\ tx_count = 0
    /\ transactions = <<>>
    /\ NoLimiter
    /\ commits = [u \in Users |-> <<>>]
    /\ users = {}
    /\ shown = [u \in Users |-> {}]
    /\ flows = 0
    /\ draft = [u \in Users |-> 0]
    /\ last = NoEvent
    /\ NoTasks
    /\ NoFunction
    /\ NoCallers
    /\ settings \in SettingsSamples
    /\ pc = "called"
    /\ attempt = 0
    /\ clock = 0
    /\ requests = 0
    /\ sleeps = 0
    /\ outcomes = <<>>
    /\ decoded = NoResponse
    /\ error = "none"

\* the checks made before the loop: the text and the API key
parse_transaction_text(text_empty, api_key) ==
    /\ pc = "called"
    /\ IF text_empty
       THEN pc' = "raised" /\ error' = "empty_text"
       ELSE IF ~api_key
       THEN pc' = "raised" /\ error' = "no_api_key"
       ELSE pc' = "for" /\ error' = "none"
    /\ UNCHANGED <<settings, attempt, clock, requests, sleeps, outcomes,
                   decoded>>
    /\ UNCHANGED <<dialogs, polling, whisper, pure, limiter>>

\* the head of 'for attempt in range(max_retries)' down to client.post
send_request_unchecked ==
    /\ pc = "for"
    /\ IF attempt >= settings.agentrouter_max_retries
       THEN /\ pc' = "raised"
            /\ error' = IF outcomes = <<>> THEN "all_failed"
                        ELSE ErrorOf(outcomes[Len(outcomes)])
            /\ UNCHANGED requests
       ELSE /\ pc' = "post"
            /\ requests' = requests + 1
            /\ UNCHANGED error
    /\ UNCHANGED <<settings, attempt, clock, sleeps, outcomes, decoded>>
    /\ UNCHANGED <<dialogs, polling, whisper, pure, limiter>>

send_request ==
    /\ pc = "for"
    /\ IF attempt >= settings.agentrouter_max_retries
       THEN /\ pc' = "raised"
            /\ error' = IF outcomes = <<>> THEN "all_failed"
                        ELSE ErrorOf(outcomes[Len(outcomes)])
            /\ UNCHANGED requests
       ELSE IF clock >= settings.agentrouter_total_deadline
       THEN /\ pc' = "raised"
            /\ error' = "deadline_exceeded"
            /\ UNCHANGED requests
       ELSE /\ pc' = "post"
            /\ requests' = requests + 1
            /\ UNCHANGED error
    /\ UNCHANGED <<settings, attempt, clock, sleeps, outcomes, decoded>>
    /\ UNCHANGED <<dialogs, polling, whisper, pure, limiter>>

\* the request is over: the response, or the exception, is dealt with
post_retrying_401(outcome) ==
    /\ pc = "post"
    /\ clock' = clock + (IF outcome = "timeout" THEN attempt_timeout
                         ELSE Min(ResponseTime, attempt_timeout))
    /\ outcomes' = Append(outcomes, outcome)
    /\ decoded' \in DecodedAs(outcome)
    /\ IF outcome = "ok"
       THEN pc' = "returned" /\ UNCHANGED error
       ELSE IF outcome \in Retryable \cup {"status_401"}
               /\ attempt < settings.agentrouter_max_retries - 1
       THEN pc' = "sleep" /\ UNCHANGED error
       ELSE pc' = "raised" /\ error' = ErrorOf(outcome)
    /\ UNCHANGED <<settings, attempt, requests, sleeps>>
    /\ UNCHANGED <<dialogs, polling, whisper, pure, limiter>>

post(outcome) ==
    /\ pc = "post"
    /\ clock' = clock + (IF outcome = "timeout" THEN attempt_timeout
                         ELSE Min(ResponseTime, attempt_timeout))
    /\ outcomes' = Append(outcomes, outcome)
    /\ decoded' \in DecodedAs(outcome)
    /\ IF outcome = "ok"
       THEN pc' = "returned" /\ UNCHANGED error
       ELSE IF outcome \in Retryable
               /\ attempt < settings.agentrouter_max_retries - 1
       THEN pc' = "sleep" /\ UNCHANGED error
       ELSE pc' = "raised" /\ error' = ErrorOf(outcome)
    /\ UNCHANGED <<settings, attempt, requests, sleeps>>
    /\ UNCHANGED <<dialogs, polling, whisper, pure, limiter>>

\* await asyncio.sleep(delay); continue
sleep_same_attempt(j) ==
    /\ pc = "sleep"
    /\ clock' = clock + _calculate_backoff_delay(attempt, j)
    /\ sleeps' = sleeps + 1
    /\ pc' = "for"
    /\ UNCHANGED <<settings, attempt, requests, outcomes, decoded, error>>
    /\ UNCHANGED <<dialogs, polling, whisper, pure, limiter>>

sleep(j) ==
    /\ pc = "sleep"
    /\ clock' = clock + _calculate_backoff_delay(attempt, j)
    /\ sleeps' = sleeps + 1
    /\ attempt' = attempt + 1
    /\ pc' = "for"
    /\ UNCHANGED <<settings, requests, outcomes, decoded, error>>
    /\ UNCHANGED <<dialogs, polling, whisper, pure, limiter>>

NextParse ==
    \/ \E text_empty \in BOOLEAN, api_key \in BOOLEAN :
           parse_transaction_text(text_empty, api_key)
    \/ send_request
    \/ \E outcome \in Outcomes : post(outcome)
    \/ \E j \in Jitter : sleep(j)

SpecParse == InitParse /\ [][NextParse]_vars

\* how the latest request ended ("none": no request is over yet)
LastOutcome == IF outcomes = <<>> THEN "none" ELSE outcomes[Len(outcomes)]

\* the call is over
Terminated == pc \in {"returned", "raised"}

\* C14: a response with status 401 makes parse_transaction_text fail at once
\* with the invalid-credentials error, whatever max_retries is: the request
\* that was answered 401 is the last one, no backoff sleep follows it and
\* nothing more is done.
C14_Step ==
    (pc = "post" /\ pc' /= "post" /\ outcomes'[Len(outcomes')] = "status_401")
       => /\ pc' = "raised"
          /\ error' = "invalid_credentials"
          /\ requests' = requests
          /\ sleeps' = sleeps
          /\ attempt' = attempt

C14_After401 ==
    LastOutcome = "status_401"
       => /\ pc = "raised"
          /\ error = "invalid_credentials"
          /\ requests = Len(outcomes)
          /\ sleeps = Len(outcomes) - 1
          /\ ~ENABLED NextParse

C14_InvalidCredentials == []C14_After401 /\ [][C14_Step]_vars

\* a 401 answered to the second request of a call that had attempts left
C14_Witness ==
    /\ LastOutcome = "status_401"
    /\ Len(outcomes) = 2
    /\ settings.agentrouter_max_retries > 2
    /\ error = "invalid_credentials"

\* the endpoint has timed out on every request so far, under the default
\* settings
AlwaysTimingOut ==
    /\ settings = DefaultSettings
    /\ outcomes /= <<>>
    /\ \A k \in 1..Len(outcomes) : outcomes[k] = "timeout"

\* C15 as stated: with total_deadline 25 s, a timeout of 10 s per attempt,
\* max_retries 3 and an endpoint that always times out, the call goes on
\* until elapsed >= 25 s and fails with the deadline-exceeded error, no later
\* than one attempt's timeout after the deadline.
C15_DeadlineExceeded ==
    (AlwaysTimingOut /\ Terminated)
       => /\ error = "deadline_exceeded"
          /\ clock >= settings.agentrouter_total_deadline
          /\ clock <= settings.agentrouter_total_deadline
                         + settings.agentrouter_timeout

\* C15, amended: under the same settings the call sends exactly three
\* requests, the third with its timeout cut to what is left of the deadline,
\* and fails when the third times out, with the timeout error of that
\* attempt and not the deadline-exceeded one; elapsed never passes the
\* deadline.
C15_RetryBudget ==
    AlwaysTimingOut
       => /\ clock <= settings.agentrouter_total_deadline
          /\ error /= "deadline_exceeded"
          /\ Terminated => /\ pc = "raised"
                           /\ error = "timeout"
                           /\ requests = agentrouter_max_retries
                           /\ sleeps = agentrouter_max_retries - 1
                           /\ clock = settings.agentrouter_total_deadline

\* the third request has timed out and the call has failed
C15_Witness ==
    /\ AlwaysTimingOut
    /\ Terminated
    /\ Len(outcomes) = agentrouter_max_retries

\* every awaited request and sleep comes to an end
FairSpecParse == SpecParse /\ WF_vars(NextParse)

\* the failures the claim lists as retryable: a timeout, a malformed or
\* incomplete JSON response, a status other than 200 and 401
ListedRetryable == {"timeout", "bad_json", "status_500"}

\* C16 as stated: the call always ends with a result or a ParsingError after
\* at most max_retries requests; a further request is sent only after the
\* previous one ended in one of the listed retryable failures and after one
\* backoff sleep, and no sleep follows the last request.
C16_ListedStep ==
    (requests' = requests + 1 /\ requests > 0)
       => (LastOutcome \in ListedRetryable /\ sleeps = requests)

C16_ListedAfter ==
    /\ requests <= settings.agentrouter_max_retries
    /\ (Terminated /\ requests > 0) => sleeps = requests - 1

C16_Step ==
    (requests' = requests + 1 /\ requests > 0)
       => (LastOutcome \in Retryable /\ sleeps = requests)

C16_After ==
    /\ requests <= settings.agentrouter_max_retries
    /\ sleeps <= requests
    /\ sleeps < settings.agentrouter_max_retries \/ sleeps = 0
    /\ Terminated =>
          /\ (pc = "raised") = (error /= "none")
          /\ (pc = "returned") = (LastOutcome = "ok")
          /\ (requests > 0 /\ sleeps = requests) = (error = "deadline_exceeded")

C17_AddStartsAfresh ==
    \A u \in Users : flows < MaxFlows => ENABLED cmd_add_transaction(u)

\* C18: starting a new flow abandons the old draft without merging: after
\* '/add' the slot holds no amount, category, description or recognized
\* text of an abandoned draft, and after a recognised voice message it
\* holds no key that only the guided flow writes.
C18_NoMerge ==
    /\ last.handler = "cmd_add_transaction"
          => /\ data[last.user].amount = NoAmount
             /\ data[last.user].category_id = 0
             /\ data[last.user].category_name = Absent
             /\ data[last.user].description = Absent
             /\ data[last.user].recognized_text = Absent
    /\ (last.handler = "handle_voice_message" /\ last.result = "ok")
          => data[last.user].category_type = "absent"

Warnings ==
    {"warn_transaction_limit", "warn_monthly_exceeded",
     "warn_monthly_approaching"}

\* C19: an income never triggers a limit warning, whatever its amount and
\* whatever limits its owner has set: the amount step of an income draft
\* sends no warning and is not stopped by the limit checks.
C19_IncomeNoWarning ==
    (last.handler = "process_amount_input"
        /\ data[last.user].transaction_type = "income")
       => /\ \A k \in 1..Len(last.out) : last.out[k] \notin Warnings
          /\ last.result \in ValidationErrors \cup {"ok"}

\* an income above every limit of one transaction was accepted
C19_Witness ==
    /\ last.handler = "process_amount_input"
    /\ last.result = "ok"
    /\ data[last.user].transaction_type = "income"
    /\ GreaterThan(data[last.user].amount, max_transaction_amount)

\* the monthly warning due for an expense of the given amount (in
\* hundredths), the owner having spent current_spent this month
MonthlyWarningDue(user, current_spent, hundredths) ==
    LET projected == current_spent + hundredths
        ceiling == user.monthly_limit * 100
    IN  IF user.monthly_limit = 0 THEN {}
        ELSE IF projected > ceiling THEN {"warn_monthly_exceeded"}
        ELSE IF projected * 10 >= ceiling * 8 THEN {"warn_monthly_approaching"}
        ELSE {}

\* C20: the monthly check of an expense amount runs only if the owner has a
\* monthly ceiling; with projected = spent this month + amount it sends the
\* exceeded warning iff projected > ceiling, the approaching warning iff
\* projected <= ceiling and projected / ceiling >= 0.8, and no monthly
\* warning otherwise, never both.
C20_Step ==
    \A u \in Users, text \in AmountTexts, user \in LimitSettings,
       current_spent \in SpentSamples :
        (/\ process_amount_input(u, text, user, current_spent)
         /\ validate_amount(text).ok
         /\ data[u].transaction_type = "expense"
         /\ u \in users)
           => {last'.out[k] : k \in 1..Len(last'.out)}
                 \cap {"warn_monthly_exceeded", "warn_monthly_approaching"}
              = MonthlyWarningDue(user, current_spent,
                                  Hundredths(validate_amount(text).amount))

C20_MonthlyCheck == [][C20_Step]_vars

\* ------------------------------------------------------------------------
\* The limit checks of process_amount_input applied on their own: to an
\* amount validate_amount has accepted, for an owner with given limits who
\* has spent a given sum this month.

Num(coef, exp) == [k |-> "fin", neg |-> FALSE, coef |-> coef, exp |-> exp]

\* 500, 40000, 100000, 100000.01, 500000, 1000000, 1000000.01, 2000000
LimitAmounts ==
    {Num(500, 0), Num(40000, 0), Num(100000, 0), Num(10000001, 0 - 2),
     Num(500000, 0), Num(1000000, 0), Num(100000001, 0 - 2), Num(2000000, 0)}

LimitInputs ==
    [user : LimitSettings, transaction_type : {"income", "expense"},
     amount : LimitAmounts, current_spent : SpentSamples]

InitLimits ==
    /\ fsm = [u \in Users |-> "entering_amount"]
    /\ data = [u \in Users |-> EmptyData]
    /\ categories = SeedCategories
    /\ tx_count = 0
    /\ transactions = <<>>
    /\ NoLimiter
    /\ commits = [u \in Users |-> <<>>]
    /\ users = Users
    /\ shown = [u \in Users |-> {}]
    /\ flows = 1
    /\ draft = [u \in Users |-> 1]
    /\ last = NoEvent
    /\ NoTasks
    /\ NoCallers
    /\ NoParse
    /\ input \in LimitInputs
    /\ output = <<>>

\* the checks as process_amount_input makes them for the draft's amount
check_limits ==
    /\ output = <<>>
    /\ output' = <<limit_checks(Owner, input.user, input.transaction_type,
                                AsDecimal(input.amount), input.current_spent)>>
    /\ UNCHANGED input
    /\ UNCHANGED <<dialogs, polling, whisper, parsing, limiter>>

NextLimits == check_limits

SpecLimits == InitLimits /\ [][NextLimits]_vars

\* the warnings among the messages of a result of the checks
WarningsOf(chk) == {chk.out[k] : k \in 1..Len(chk.out)} \cap Warnings

MaxCandidates == 3

Kafe == <<"K", "a", "f", "e">>
kafe == <<"k", "a", "f", "e">>
Kafeman == <<"K", "a", "f", "e", "m", "a", "n">>
afe == <<"a", "f", "e">>
drugoe == <<"d", "r", "u", "g", "o", "e">>

CandidateNames == {Kafe, kafe, Kafeman, afe, Drugoe, drugoe}

Candidate(name) ==
    [name |-> name, type |-> "expense", emoji |-> "pencil",
     is_default |-> FALSE, user_id |-> Owner]

\* the lists of up to MaxCandidates candidates with different names
CandidateLists ==
    UNION {{[i \in 1..n |-> Candidate(f[i])] :
               f \in {g \in [1..n -> CandidateNames] :
                         \A a, b \in 1..n : a /= b => g[a] /= g[b]}} :
           n \in 1..MaxCandidates}

Hints ==
    {None, Text(<<>>), Text(<<"x", "y", "z">>), Text(<<" ", "K", "A", "F", "E">>)}
       \cup {Text(n) : n \in CandidateNames}

InitMatch ==
    /\ fsm = [u \in Users |-> "none"]
    /\ data = [u \in Users |-> EmptyData]
    /\ categories \in CandidateLists
    /\ tx_count = 0
    /\ transactions = <<>>
    /\ NoLimiter
    /\ commits = [u \in Users |-> <<>>]
    /\ users = Users
    /\ shown = [u \in Users |-> {}]
    /\ flows = 0
    /\ draft = [u \in Users |-> 0]
    /\ last = NoEvent
    /\ NoTasks
    /\ NoCallers
    /\ NoParse
    /\ input \in Hints
    /\ output = <<>>

\* category_id, _ = find_matching_category(hint, available_categories)
match_category ==
    /\ output = <<>>
    /\ output' = <<find_matching_category(input,
                       [i \in 1..Len(categories) |-> i])>>
    /\ UNCHANGED input
    /\ UNCHANGED <<dialogs, polling, whisper, parsing, limiter>>

NextMatch == match_category

SpecMatch == InitMatch /\ [][NextMatch]_vars

\* the hint is, letter for letter, the name of candidate c
NamesExactly(c) == input.k = "text" /\ input.v = categories[c].name

\* the names of candidates c and d are equal up to letter case
SameUpToCase(c, d) == Lower(categories[c].name) = Lower(categories[d].name)

\* C22 as stated: called with the exact name of one of the candidates, the
\* function returns that very candidate, in every order of the list, also
\* when another candidate's name contains the hint, is contained in it or
\* equals it up to letter case.
C22_ExactCandidate ==
    output /= <<>>
       => \A c \in 1..Len(categories) : NamesExactly(c) => output[1] = c

\* C22, amended: called with the exact name of one of the candidates, the
\* function returns the first candidate of the list whose name equals the
\* hint up to letter case: that very candidate unless a candidate before it
\* has the same name up to case, whatever names contain the hint or are
\* contained in it.
C22_FirstOfThatName ==
    output /= <<>>
       => \A c \in 1..Len(categories) :
             NamesExactly(c)
                => /\ output[1] \in 1..c
                   /\ SameUpToCase(output[1], c)
                   /\ \A d \in 1..(output[1] - 1) : ~SameUpToCase(d, c)

\* the exact name of the last candidate was given, an earlier candidate's
\* name contains it, and the last candidate was returned
C22_Witness ==
    /\ output /= <<>>
    /\ Len(categories) = 2
    /\ NamesExactly(2)
    /\ categories[1].name = Kafeman
    /\ categories[2].name = Kafe
    /\ output[1] = 2

\* the hint as the function compares it: lower case, blanks stripped
HintLower == Strip(Lower(input.v))

\* a is part of b
PartOf(a, b) ==
    \E i \in 1..(Len(b) + 1), j \in 0..Len(b) : SubSeq(b, i, j) = a

NoHint == input.k /= "text" \/ input.v = <<>>

\* the candidates whose name is the hint up to letter case
ExactMatches ==
    {c \in 1..Len(categories) : Lower(categories[c].name) = HintLower}

\* the candidates whose name contains the hint or is contained in it
SubstringMatches ==
    {c \in 1..Len(categories) :
        \/ PartOf(HintLower, Lower(categories[c].name))
        \/ PartOf(Lower(categories[c].name), HintLower)}

\* the candidates named like the fallback, up to letter case
FallbacksAnyCase ==
    {c \in 1..Len(categories) : Lower(categories[c].name) = Lower(Drugoe)}

\* the candidates whose name is the fallback name, letter for letter
Fallbacks == {c \in 1..Len(categories) : categories[c].name = Drugoe}

\* the priority of the claim, for a set of fallback candidates
InPriority(r, fallbacks) ==
    IF NoHint THEN (IF fallbacks = {} THEN r = 0 ELSE r \in fallbacks)
    ELSE IF ExactMatches /= {} THEN r \in ExactMatches
    ELSE IF SubstringMatches /= {} THEN r \in SubstringMatches
    ELSE IF fallbacks /= {} THEN r \in fallbacks
    ELSE r = 0

\* C30 as stated: the function resolves in a fixed priority, comparing
\* without regard to letter case throughout: no hint gives the fallback
\* category; otherwise an exact match wins over a substring match, a
\* substring match in either direction over the fallback, the fallback is
\* used when nothing matches, and no id is returned only when no candidate
\* is named like the fallback.
C30_AnyCasePriority ==
    output /= <<>> => InPriority(output[1], FallbacksAnyCase)

\* C30, amended: the same priority, the hint being compared without regard
\* to letter case and the fallback being the candidate whose name is the
\* fallback name letter for letter; no id is returned only when the hint
\* matches no candidate and no candidate has exactly that name.
C30_Priority ==
    output /= <<>> => InPriority(output[1], Fallbacks)

\* a hint that is part of a candidate's name and the name of none was
\* resolved to that candidate although the fallback is in the list
C30_Witness ==
    /\ output /= <<>>
    /\ ~NoHint
    /\ ExactMatches = {}
    /\ output[1] \in SubstringMatches
    /\ Fallbacks /= {}
    /\ output[1] \notin Fallbacks
    /\ input.v = afe

\* ------------------------------------------------------------------------
\* validate_amount applied on its own, to strings put together from a whole
\* part, a fraction and what may follow the number.

WholeParts ==
    {<<"0">>, <<"5", "0", "0">>, <<"1", "0", "0", "0", "0", "0", "0", "0">>,
     <<"1", "0", "0", "0", "0", "0", "0", "1">>, <<>>, <<"a">>, <<"-", "5">>}

FractionParts ==
    {<<>>, <<".">>, <<".", "0">>, <<".", "0", "0">>, <<".", "0", "1">>,
     <<".", "5">>, <<".", "2", "3", "4">>, <<",", "5">>}

Endings == {<<>>, <<" ", "RUB">>, <<"\n">>}

AmountStrings ==
    {w \o f \o e : w \in WholeParts, f \in FractionParts, e \in Endings}

InitValidate ==
    /\ fsm = [u \in Users |-> "none"]
    /\ data = [u \in Users |-> EmptyData]
    /\ categories = SeedCategories
    /\ tx_count = 0
    /\ transactions = <<>>
    /\ NoLimiter
    /\ commits = [u \in Users |-> <<>>]
    /\ users = {}
    /\ shown = [u \in Users |-> {}]
    /\ flows = 0
    /\ draft = [u \in Users |-> 0]
    /\ last = NoEvent
    /\ NoTasks
    /\ NoCallers
    /\ NoParse
    /\ input \in AmountStrings
    /\ output = <<>>

\* is_valid, amount, error = validate_amount(text)
validate ==
    /\ output = <<>>
    /\ output' = <<validate_amount(input)>>
    /\ UNCHANGED input
    /\ UNCHANGED <<dialogs, polling, whisper, parsing, limiter>>

NextValidate == validate

SpecValidate == InitValidate /\ [][NextValidate]_vars

\* the place of the first "." of a string (0: none)
DotAt(t) ==
    IF \E i \in 1..Len(t) : t[i] = "."
    THEN CHOOSE i \in 1..Len(t) : t[i] = "." /\ \A j \in 1..(i - 1) : t[j] /= "."
    ELSE 0

WholeOf(t) == IF DotAt(t) = 0 THEN t ELSE SubSeq(t, 1, DotAt(t) - 1)

FractionOf(t) == IF DotAt(t) = 0 THEN <<>> ELSE SubSeq(t, DotAt(t) + 1, Len(t))

\* the whole string is one or more digits, then possibly a point and one
\* or two digits
IsAmountPattern(t) ==
    /\ WholeOf(t) /= <<>>
    /\ IsDigits(WholeOf(t))
    /\ IsDigits(FractionOf(t))
    /\ DotAt(t) /= 0 => Len(FractionOf(t)) \in {1, 2}

\* the value of such a string, in hundredths
HundredthsOf(t) ==
    DigitsToNat(WholeOf(t)) * 100
       + (IF Len(FractionOf(t)) = 1 THEN DigitsToNat(FractionOf(t)) * 10
          ELSE DigitsToNat(FractionOf(t)))

\* what the rules of the claim give for a string t, for the result r
ByTheRules(t, r) ==
    IF ~IsAmountPattern(t) THEN ~r.ok /\ r.err = "format"
    ELSE IF HundredthsOf(t) = 0 THEN ~r.ok /\ r.err = "non_positive"
    ELSE IF HundredthsOf(t) > MaxAmount * 100 THEN ~r.ok /\ r.err = "too_large"
    ELSE /\ r.ok
         /\ r.err = "none"
         /\ r.amount.k = "fin"
         /\ ~r.amount.neg
         /\ r.amount.exp = 0 - Len(FractionOf(t))
         /\ Hundredths(r.amount) = HundredthsOf(t)

Chomp(t) ==
    IF t /= <<>> /\ t[Len(t)] = "\n" THEN SubSeq(t, 1, Len(t) - 1) ELSE t

C24_Step ==
    /\ (pc = "for" /\ attempt < settings.agentrouter_max_retries
           /\ clock >= settings.agentrouter_total_deadline)
          => /\ pc' = "raised"
             /\ error' = "deadline_exceeded"
             /\ requests' = requests
             /\ outcomes' = outcomes
    /\ (pc = "post" /\ pc' /= "post")
          => /\ clock' <= settings.agentrouter_total_deadline
             /\ LastOutcome' = "timeout" =>
                   /\ clock' - clock > 0
                   /\ \/ /\ clock' - clock = settings.agentrouter_timeout
                         /\ settings.agentrouter_timeout
                               <= settings.agentrouter_total_deadline - clock
                      \/ /\ clock' - clock
                               = settings.agentrouter_total_deadline - clock
                         /\ settings.agentrouter_total_deadline - clock
                               <= settings.agentrouter_timeout

C24_UnderWay == pc = "post" => clock < settings.agentrouter_total_deadline

C24_Deadline == []C24_UnderWay /\ [][C24_Step]_vars

\* the deadline has cut an attempt short: after two full timeouts the third
\* request got what was left, and the fourth attempt was never made
C24_Witness ==
    /\ pc = "raised"
    /\ error = "deadline_exceeded"
    /\ requests = 3
    /\ requests < settings.agentrouter_max_retries
    /\ outcomes = <<"timeout", "timeout", "timeout">>
    /\ clock >= settings.agentrouter_total_deadline

\* C25: parse_transaction_text returns only a response whose type is income
\* or expense and whose amount is a decimal with 0 < amount <= 10 000 000,
\* and a decoded object that breaks either rule makes the call fail on that
\* same attempt: no backoff sleep and no further request follow.
ValidData(r) ==
    /\ r.shape = "object"
    /\ r.type \in {"income", "expense"}
    /\ LET amount == ParseNumber(str_amount(r))
       IN  /\ amount.k = "fin"
           /\ ~NonPositive(amount)
           /\ ~GreaterThan(amount, max_parsed_amount)

C25_Returned == pc = "returned" => ValidData(decoded)

C25_Step ==
    (pc = "post" /\ pc' /= "post" /\ decoded'.shape = "object"
        /\ ~ValidData(decoded'))
       => /\ pc' = "raised"
          /\ sleeps' = sleeps
          /\ requests' = requests

C25_FailAtOnce == []C25_Returned /\ [][C25_Step]_vars

\* C26: a failed load of the speech model is neither fatal nor sticky.  The
\* call whose download or construction fails raises and leaves the model as
\* it was; a call that finds the model unloaded starts a load of its own; a
\* model that is loaded is never unloaded, and a call that finds it loaded
\* returns it without starting a load.
C26_Step ==
    /\ whisper_model /= 0 => whisper_model' /= 0
    /\ \A i \in 1..MaxCallers :
          i <= Len(callers) =>
             /\ (callers[i] \in {"download_model", "Model"}
                    /\ callers'[i] = "raised")
                   => whisper_model' = whisper_model
             /\ (callers[i] = "called" /\ callers'[i] /= "called")
                   => IF whisper_model = 0
                      THEN /\ callers'[i] = "download_model"
                           /\ loads' = loads + 1
                      ELSE /\ callers'[i] = "returned"
                           /\ loads' = loads
                           /\ whisper_model' = whisper_model

C26_FailedLoad == [][C26_Step]_vars

\* the first call failed to load the model, the second loaded it, the third
\* got it without a load
C26_Witness ==
    /\ callers = <<"raised", "returned", "returned">>
    /\ whisper_model = 2
    /\ loads = 2

\* C27: the check of one expense against the ceiling of a transaction: the
\* ceiling is the owner's max_transaction_limit when one is set and
\* max_transaction_amount otherwise, and the transaction-limit warning is
\* sent exactly when the amount is greater than the ceiling; an amount equal
\* to it gives no warning.
C27_Ceiling ==
    IF input.user.max_transaction_limit /= 0
    THEN input.user.max_transaction_limit
    ELSE max_transaction_amount

C27_EffectiveCeiling ==
    (output /= <<>> /\ input.transaction_type = "expense")
       => ("warn_transaction_limit" \in WarningsOf(output[1]))
             = (Hundredths(input.amount) > C27_Ceiling * 100)

\* an expense equal to the owner's own ceiling passed without the warning
C27_Witness ==
    /\ output /= <<>>
    /\ input.transaction_type = "expense"
    /\ input.user.max_transaction_limit /= 0
    /\ Hundredths(input.amount) = input.user.max_transaction_limit * 100
    /\ "warn_transaction_limit" \notin WarningsOf(output[1])

\* C28: the order of the limit warnings: an accepted expense amount that is
\* over the ceiling of a transaction and for which a monthly warning is due
\* gets, in one turn, the transaction-limit warning, then the monthly
\* warning, then the category prompt.
C28_Step ==
    \A u \in Users, text \in AmountTexts, user \in LimitSettings,
       current_spent \in SpentSamples :
        LET v == validate_amount(text)
            due == MonthlyWarningDue(user, current_spent, Hundredths(v.amount))
        IN  (/\ process_amount_input(u, text, user, current_spent)
             /\ v.ok
             /\ data[u].transaction_type = "expense"
             /\ u \in users
             /\ GreaterThan(v.amount, transaction_limit(user))
             /\ due /= {})
               => /\ Len(last'.out) = 3
                  /\ last'.out[1] = "warn_transaction_limit"
                  /\ last'.out[2] \in due
                  /\ last'.out[3] = "prompt_category"

C28_WarningOrder == [][C28_Step]_vars

\* C29: the limit checks are made again when the amount of a draft changes:
\* an amount accepted in editing_amount for an expense draft is checked
\* before the dialog is back in waiting_confirmation, so that an amount over
\* every ceiling of a transaction the owner can have brings the
\* transaction-limit warning ahead of the confirmation.
C29_RecheckOnEdit ==
    (/\ last.handler = "process_voice_amount_input"
     /\ last.result = "ok"
     /\ last.user \in users
     /\ data[last.user].transaction_type = "expense"
     /\ \A user \in LimitSettings :
           GreaterThan(data[last.user].amount, transaction_limit(user)))
       => \E k \in 1..Len(last.out) : last.out[k] = "warn_transaction_limit"

\* C31: an edit of the voice draft changes the edited field only.  An
\* accepted amount, category or description brings the dialog back to
\* waiting_confirmation with that field replaced (for the category: id, name
\* and emoji) and every other key of the draft as it was; the two 'back'
\* callbacks bring it back with the whole draft as it was.
C31_Step ==
    LET u == last'.user
        h == last'.handler
    IN  /\ (h = "process_voice_amount_input" /\ last'.result = "ok")
              => /\ fsm'[u] = "waiting_confirmation"
                 /\ data' = [data EXCEPT ![u].amount = data'[u].amount]
                 /\ data'[u].amount.repr = "decimal"
        /\ (h = "process_voice_category_selection" /\ last'.result = "ok")
              => /\ fsm'[u] = "waiting_confirmation"
                 /\ data' = [data EXCEPT
                               ![u].category_id = data'[u].category_id,
                               ![u].category_name = data'[u].category_name,
                               ![u].category_emoji = data'[u].category_emoji]
                 /\ data'[u].category_id \in DOMAIN categories
                 /\ data'[u].category_name
                       = Text(categories[data'[u].category_id].name)
                 /\ data'[u].category_emoji
                       = categories[data'[u].category_id].emoji
        /\ (h = "process_voice_description_input" /\ last'.result = "ok")
              => /\ fsm'[u] = "waiting_confirmation"
                 /\ data' = [data EXCEPT
                               ![u].description = data'[u].description]
        /\ h \in {"process_voice_back_to_confirm",
                  "process_voice_back_to_edit_menu"}
              => /\ fsm'[u] = "waiting_confirmation"
                 /\ data' = data

C31_OnlyTheEditedField == [][C31_Step]_vars

\* an amount was edited in a draft that holds the recognised text, an owner
\* and a category
C31_Witness ==
    /\ last.handler = "process_voice_amount_input"
    /\ last.result = "ok"
    /\ fsm[last.user] = "waiting_confirmation"
    /\ data[last.user].recognized_text /= Absent
    /\ data[last.user].user_id /= 0
    /\ data[last.user].category_id /= 0

\* C32: the guided flow only moves along choosing_type, entering_amount,
\* choosing_category, (entering_custom_category,) entering_description,
\* confirmation, no state, or to no state by cancel.  Each of its handlers
\* takes an event only in its own state, so that 'type:', 'category:',
\* 'skip' and 'confirm:' arriving in another state change neither the state
\* nor the draft, and a step a handler makes leads to the same state or to
\* the next one, never past it.
FlowAStates ==
    {"choosing_type", "entering_amount", "choosing_category",
     "entering_custom_category", "entering_description", "confirmation"}

FlowAStep(handler, from, to) ==
    \/ to = from
    \/ handler = "process_type_selection"
          /\ from = "choosing_type" /\ to = "entering_amount"
    \/ handler = "process_amount_input"
          /\ from = "entering_amount" /\ to = "choosing_category"
    \/ handler = "process_category_selection"
          /\ from = "choosing_category"
          /\ to \in {"entering_custom_category", "entering_description"}
    \/ handler = "process_custom_category_input"
          /\ from = "entering_custom_category" /\ to = "entering_description"
    \/ handler \in {"process_description_input", "process_skip_description"}
          /\ from = "entering_description" /\ to = "confirmation"
    \/ handler = "process_confirmation" /\ from = "confirmation" /\ to = "none"
    \/ handler = "process_cancel" /\ to = "none"

C32_Step ==
    LET u == last'.user
        h == last'.handler
    IN  /\ h \in {"process_type_selection", "process_amount_input",
                  "process_category_selection", "process_custom_category_input",
                  "process_description_input", "process_skip_description",
                  "process_confirmation", "process_cancel"}
              => /\ FlowAStep(h, fsm[u], fsm'[u])
                 /\ fsm'[u] = fsm[u] /\ h /= "process_cancel"
                       => data'[u] = data[u]
        /\ h = "unhandled"
              => fsm' = fsm /\ data' = data

C32_OwnState ==
    \A u \in Users :
       /\ fsm[u] /= "choosing_type"
             => \A t \in {"income", "expense"} :
                   ~ENABLED process_type_selection(u, t)
       /\ fsm[u] /= "choosing_category"
             => \A c \in 0..Len(categories) :
                   ~ENABLED process_category_selection(u, c)
       /\ fsm[u] /= "entering_description"
             => ~ENABLED process_skip_description(u)
       /\ fsm[u] /= "confirmation"
             => \A action \in {"yes", "no"}, dbOk \in BOOLEAN :
                   ~ENABLED process_confirmation(u, action, dbOk)

C32_AlongThePath == []C32_OwnState /\ [][C32_Step]_vars

\* a guided flow has gone the long way, by a category of the user's own, to
\* the confirmation
C32_Witness ==
    /\ last.handler \in {"process_description_input", "process_skip_description"}
    /\ fsm[last.user] = "confirmation"
    /\ data[last.user].category_id \in DOMAIN categories
    /\ ~categories[data[last.user].category_id].is_default

\* C33: every description passed to create_transaction, by the guided flow,
\* by the quick text entry and by the voice flow, is absent or at most 500
\* characters long.
C33_DescriptionBound ==
    last.call.description.k = "text"
       => Len(last.call.description.v) <= MaxDescriptionLen

\* ------------------------------------------------------------------------
\* update_category and delete_category of the database service, called on
\* their own for any category id by any user.  The table holds the default
\* categories and one category of each of two users; a deleted row leaves
\* its id unused.

DbUsers == {1, 2}

PersonalCategories ==
    << [name |-> <<"K", "i", "n", "o">>, type |-> "expense", emoji |-> "film",
        is_default |-> FALSE, user_id |-> 1],
       [name |-> <<"K", "i", "n", "o">>, type |-> "expense", emoji |-> "film",
        is_default |-> FALSE, user_id |-> 2] >>

\* the row of an id no category has (any more)
NoRow ==
    [name |-> <<>>, type |-> "none", emoji |-> "none", is_default |-> FALSE,
     user_id |-> 0]

\* ids requests are made for: every row of the table and one id beyond it
CategoryIds == 1..(Len(SeedCategories) + Len(PersonalCategories) + 1)

\* the keyword arguments of update_category: a name, an emoji, both, or a
\* field that may not be updated
Kwargs ==
    {[name |-> <<"T", "e", "a", "t", "r">>], [emoji |-> "mask"],
     [name |-> <<"B", "a", "l", "e", "t">>, emoji |-> "shoe"],
     [is_default |-> TRUE]}

InitCategories ==
    /\ fsm = [u \in Users |-> "none"]
    /\ data = [u \in Users |-> EmptyData]
    /\ categories = SeedCategories \o PersonalCategories
    /\ tx_count = 0
    /\ transactions = <<>>
    /\ NoLimiter
    /\ commits = [u \in Users |-> <<>>]
    /\ users = Users
    /\ shown = [u \in Users |-> {}]
    /\ flows = 0
    /\ draft = [u \in Users |-> 0]
    /\ last = NoEvent
    /\ NoTasks
    /\ NoCallers
    /\ NoParse
    /\ input = <<>>
    /\ output = <<>>

\* select(Category).where(id == category_id, user_id == user_id,
\* is_default == False), scalar_one_or_none(): found or not
SelectOwned(category_id, user_id) ==
    /\ category_id \in DOMAIN categories
    /\ categories[category_id] /= NoRow
    /\ categories[category_id].user_id = user_id
    /\ ~categories[category_id].is_default

\* update_category that selects the row by its id alone
update_category_by_id(category_id, user_id, kwargs) ==
    /\ input' = <<"update_category", category_id, user_id>>
    /\ IF category_id \in DOMAIN categories /\ categories[category_id] /= NoRow
       THEN /\ categories' = [categories EXCEPT ![category_id] =
                  [@ EXCEPT !.name = IF "name" \in DOMAIN kwargs
                                     THEN kwargs.name ELSE @,
                            !.emoji = IF "emoji" \in DOMAIN kwargs
                                      THEN kwargs.emoji ELSE @]]
            /\ output' = <<TRUE>>
       ELSE /\ output' = <<FALSE>>
            /\ UNCHANGED categories
    /\ UNCHANGED <<fsm, data, ledger, users, shown, flows, draft, last>>
    /\ UNCHANGED <<polling, whisper, parsing, limiter>>

\* update_category(category_id, user_id, **kwargs); output: a category was
\* returned (TRUE) or None (FALSE)
update_category(category_id, user_id, kwargs) ==
    /\ input' = <<"update_category", category_id, user_id>>
    /\ IF SelectOwned(category_id, user_id)
       THEN /\ categories' = [categories EXCEPT ![category_id] =
                  [@ EXCEPT !.name = IF "name" \in DOMAIN kwargs
                                     THEN kwargs.name ELSE @,
                            !.emoji = IF "emoji" \in DOMAIN kwargs
                                      THEN kwargs.emoji ELSE @]]
            /\ output' = <<TRUE>>
       ELSE /\ output' = <<FALSE>>
            /\ UNCHANGED categories
    /\ UNCHANGED <<fsm, data, ledger, users, shown, flows, draft, last>>
    /\ UNCHANGED <<polling, whisper, parsing, limiter>>

\* delete_category(category_id, user_id); output: what it returns
delete_category(category_id, user_id) ==
    /\ input' = <<"delete_category", category_id, user_id>>
    /\ IF SelectOwned(category_id, user_id)
       THEN /\ categories' = [categories EXCEPT ![category_id] = NoRow]
            /\ output' = <<TRUE>>
       ELSE /\ output' = <<FALSE>>
            /\ UNCHANGED categories
    /\ UNCHANGED <<fsm, data, ledger, users, shown, flows, draft, last>>
    /\ UNCHANGED <<polling, whisper, parsing, limiter>>

NextCategories ==
    \/ \E category_id \in CategoryIds, user_id \in DbUsers, kwargs \in Kwargs :
           update_category(category_id, user_id, kwargs)
    \/ \E category_id \in CategoryIds, user_id \in DbUsers :
           delete_category(category_id, user_id)

SpecCategories == InitCategories /\ [][NextCategories]_vars

\* C34: default categories are read-only and a personal category belongs to
\* one owner: a call of update_category or delete_category changes or
\* removes at most the category it names, and only if that category is not
\* a default one and its user_id is the caller's; a call that names a
\* default category, a category of another user or no category changes
\* nothing and reports failure.  So the default rows are what they were at
\* the start and no row has changed hands.
C34_Step ==
    LET category_id == input'[2]
        user_id == input'[3]
        own == /\ category_id \in DOMAIN categories
               /\ ~categories[category_id].is_default
               /\ categories[category_id].user_id = user_id
    IN  /\ \A i \in DOMAIN categories :
              categories'[i] /= categories[i] => (i = category_id /\ own)
        /\ DOMAIN categories' = DOMAIN categories
        /\ ~own => (categories' = categories /\ output' = <<FALSE>>)
        /\ own => output' = <<TRUE>>

C34_Table ==
    /\ \A i \in 1..Len(SeedCategories) : categories[i] = SeedCategories[i]
    /\ \A i \in 1..Len(PersonalCategories) :
          LET row == categories[Len(SeedCategories) + i]
          IN  row = NoRow
              \/ (~row.is_default /\ row.type = PersonalCategories[i].type
                    /\ row.user_id = PersonalCategories[i].user_id)

C34_ReadOnlyDefaults == []C34_Table /\ [][C34_Step]_vars

\* user 1 has renamed their category, user 2 has deleted theirs, and the
\* latest request, for a default category, has failed
C34_Witness ==
    /\ input /= <<>>
    /\ input[2] \in 1..Len(SeedCategories)
    /\ output = <<FALSE>>
    /\ categories[Len(SeedCategories) + 1].name /= PersonalCategories[1].name
    /\ categories[Len(SeedCategories) + 1].user_id = 1
    /\ categories[Len(SeedCategories) + 2] = NoRow

\* ------------------------------------------------------------------------
\* Callbacks of the other features arriving while a dialog is under way.
\* Their handlers are registered without a state filter, in routers that
\* come before those of the voice and the guided flow, so a press on a
\* button of an older message reaches them in every dialog state.

\* callback 'menu:main': state.clear(), then the main menu
show_main_menu(u) ==
    /\ fsm' = Cleared(fsm, u)
    /\ data' = ClearedData(data, u)
    /\ last' = Event(u, "show_main_menu", "menu:main", "ok", <<"menu:main">>)
    /\ UNCHANGED <<categories, ledger, users, shown, flows, draft>>
    /\ UNCHANGED side

\* callback 'export:<period>': the report is made or fails, and the
\* finally clause calls state.clear()
handle_export_period(u) ==
    /\ users' = users \cup {u}
    /\ fsm' = Cleared(fsm, u)
    /\ data' = ClearedData(data, u)
    /\ last' = Event(u, "handle_export_period", "export:period", "ok", <<"export:period">>)
    /\ UNCHANGED <<categories, ledger, shown, flows, draft>>
    /\ UNCHANGED side

\* callback 'delete:cancel': state.clear()
handle_delete_transaction(u) ==
    /\ fsm' = Cleared(fsm, u)
    /\ data' = ClearedData(data, u)
    /\ last' = Event(u, "handle_delete_transaction", "delete:cancel", "ok", <<"delete:cancel">>)
    /\ UNCHANGED <<categories, ledger, users, shown, flows, draft>>
    /\ UNCHANGED side

\* callback 'edit:cancel': state.clear()
handle_edit_transaction(u) ==
    /\ fsm' = Cleared(fsm, u)
    /\ data' = ClearedData(data, u)
    /\ last' = Event(u, "handle_edit_transaction", "edit:cancel", "ok", <<"edit:cancel">>)
    /\ UNCHANGED <<categories, ledger, users, shown, flows, draft>>
    /\ UNCHANGED side

\* callback 'cat:cancel': state.clear()
cancel_category_operation(u) ==
    /\ fsm' = Cleared(fsm, u)
    /\ data' = ClearedData(data, u)
    /\ last' = Event(u, "cancel_category_operation", "cat:cancel", "ok", <<"cat:cancel">>)
    /\ UNCHANGED <<categories, ledger, users, shown, flows, draft>>
    /\ UNCHANGED side

\* callback 'settings:cancel': state.clear()
cancel_settings(u) ==
    /\ fsm' = Cleared(fsm, u)
    /\ data' = ClearedData(data, u)
    /\ last' = Event(u, "cancel_settings", "settings:cancel", "ok", <<"settings:cancel">>)
    /\ UNCHANGED <<categories, ledger, users, shown, flows, draft>>
    /\ UNCHANGED side

\* callback 'menu:stats': the statistics are shown, the state is not touched
show_stats_callback(u) ==
    /\ users' = users \cup {u}
    /\ last' = Event(u, "show_stats_callback", "menu:stats", "ok",
                     <<"menu:stats">>)
    /\ UNCHANGED <<fsm, data, categories, ledger, shown, flows, draft>>
    /\ UNCHANGED side

\* the ways into a dialog, and the callbacks of the other features
NextFeatures ==
    \/ \E u \in Users : cmd_add_transaction(u)
    \/ \E u \in Users, t \in {"income", "expense"} : process_type_selection(u, t)
    \/ \E u \in Users, text \in AmountTexts, user \in LimitSettings,
          current_spent \in SpentSamples :
           process_amount_input(u, text, user, current_spent)
    \/ \E u \in Users, v \in VoiceInputs :
           handle_voice_message(u, v.transcribed, v.answered, v.resp)
    \/ \E u \in Users : process_voice_edit_amount(u)
    \/ \E u \in Users : show_main_menu(u)
    \/ \E u \in Users : handle_export_period(u)
    \/ \E u \in Users : handle_delete_transaction(u)
    \/ \E u \in Users : handle_edit_transaction(u)
    \/ \E u \in Users : cancel_category_operation(u)
    \/ \E u \in Users : cancel_settings(u)
    \/ \E u \in Users : show_stats_callback(u)

SpecFeatures == Init /\ [][NextFeatures]_vars

\* C35: a callback of another feature that starts no flow ('export:',
\* 'menu:main', 'delete:cancel', 'edit:cancel', 'cat:cancel',
\* 'settings:cancel', 'menu:stats'), received while its user is in a state
\* of the guided or of the voice flow, leaves that state and the draft as
\* they are.
C35_Step ==
    LET u == last'.user
    IN  (/\ last'.handler \in {"show_main_menu", "handle_export_period",
                               "handle_delete_transaction",
                               "handle_edit_transaction",
                               "cancel_category_operation", "cancel_settings",
                               "show_stats_callback"}
         /\ fsm[u] \in FlowAStates \cup VoiceStates)
           => /\ fsm'[u] = fsm[u]
              /\ data'[u] = data[u]

C35_DraftKept == [][C35_Step]_vars

(***************************************************************************)
(* Two users                                                               *)
(*                                                                         *)
(* The guided flow, quick entry and the edit and delete handlers of the    *)
(* list view, with two users sending events in any order.  The storage     *)
(* calls of a handler are made for the user row of the sender:             *)
(* get_or_create_user(telegram_id=....from_user.id).                       *)
(***************************************************************************)
TwoUsers == {1, 2}

\* a deleted row: its id is not given to a later insert
Deleted == [user_id |-> 0, edited |-> {}]

\* the attributes of a Transaction row that setattr may overwrite
Columns == {"amount", "category_id", "description"}

\* select(Transaction).where(Transaction.id == transaction_id,
\* Transaction.user_id == user_id): the row exists
SelectTransaction(transaction_id, user_id) ==
    /\ transaction_id \in DOMAIN transactions
    /\ transactions[transaction_id].user_id = user_id

\* update_transaction(transaction_id, user_id, **kwargs)
update_transaction(transaction_id, user_id, kwargs) ==
    /\ transactions' =
          IF SelectTransaction(transaction_id, user_id)
          THEN [transactions EXCEPT
                   ![transaction_id].edited = @ \cup (kwargs \cap Columns)]
          ELSE transactions
    /\ UNCHANGED <<tx_count, commits>>

\* delete_transaction that selects the row by its id alone
delete_transaction_by_id(transaction_id, user_id) ==
    /\ transactions' =
          IF transaction_id \in DOMAIN transactions
          THEN [transactions EXCEPT ![transaction_id] = Deleted]
          ELSE transactions
    /\ tx_count' =
          IF transaction_id \in DOMAIN transactions
                /\ transactions[transaction_id] /= Deleted
          THEN tx_count - 1
          ELSE tx_count
    /\ UNCHANGED commits

\* delete_transaction(transaction_id, user_id)
delete_transaction(transaction_id, user_id) ==
    /\ transactions' =
          IF SelectTransaction(transaction_id, user_id)
          THEN [transactions EXCEPT ![transaction_id] = Deleted]
          ELSE transactions
    /\ tx_count' =
          IF SelectTransaction(transaction_id, user_id) THEN tx_count - 1
          ELSE tx_count
    /\ UNCHANGED commits

\* the fields offered by get_edit_field_keyboard
EditFields == {"amount", "category", "description"}

\* the keyword argument with which the handler of a field calls
\* update_transaction
EditKwargs(field) == IF field = "category" THEN {"category_id"} ELSE {field}

\* EditTransactionStates
EditState(field) ==
    IF field = "amount" THEN "editing_amount"
    ELSE IF field = "category" THEN "editing_category"
    ELSE "editing_description"

\* handle_edit_transaction on 'edit:field:<field>:<id>'
handle_edit_field(u, field, transaction_id) ==
    /\ users' = users \cup {u}
    /\ IF ~SelectTransaction(transaction_id, u)
       THEN /\ last' = Event(u, "handle_edit_transaction", "edit:field",
                             "not_found", <<transaction_id>>)
            /\ UNCHANGED <<fsm, data>>
       ELSE /\ data' = [data EXCEPT ![u].transaction_id = transaction_id,
                                    ![u].user_id = u]
            /\ fsm' = [fsm EXCEPT ![u] = EditState(field)]
            /\ last' = Event(u, "handle_edit_transaction", "edit:field",
                             "ok", <<transaction_id>>)
    /\ UNCHANGED <<categories, ledger, shown, flows, draft>>
    /\ UNCHANGED side

\* process_edit_amount, process_edit_category, process_edit_description,
\* process_edit_skip_description; valid: the text sent passes the checks of
\* the handler
process_edit(u, field, valid) ==
    /\ fsm[u] = EditState(field)
    /\ IF ~valid /\ field /= "category"
       THEN /\ last' = Event(u, "process_edit", field, "format",
                             <<data[u].transaction_id>>)
            /\ UNCHANGED <<fsm, data, ledger>>
       ELSE /\ data[u].transaction_id /= 0
            /\ data[u].user_id /= 0
            /\ update_transaction(data[u].transaction_id, data[u].user_id,
                                  EditKwargs(field))
            /\ fsm' = Cleared(fsm, u)
            /\ data' = ClearedData(data, u)
            /\ last' = Event(u, "process_edit", field,
                             IF SelectTransaction(data[u].transaction_id,
                                                  data[u].user_id)
                             THEN "ok" ELSE "not_found",
                             <<data[u].transaction_id>>)
    /\ UNCHANGED <<categories, users, shown, flows, draft>>
    /\ UNCHANGED side

\* handle_delete_transaction on 'delete:confirm:<id>'
handle_delete_confirm(u, transaction_id) ==
    /\ users' = users \cup {u}
    /\ delete_transaction(transaction_id, u)
    /\ fsm' = Cleared(fsm, u)
    /\ data' = ClearedData(data, u)
    /\ last' = Event(u, "handle_delete_transaction", "delete:confirm",
                     IF SelectTransaction(transaction_id, u) THEN "ok"
                     ELSE "not_found",
                     <<transaction_id>>)
    /\ UNCHANGED <<categories, shown, flows, draft>>
    /\ UNCHANGED side

\* amounts typed by the two users
TwoUsersAmountTexts == { <<"5", "0", "0", ",", "5", " ", "RUB">>, <<"0">> }

\* the limits of the two users: none
TwoUsersLimits == [max_transaction_limit |-> 0, monthly_limit |-> 0]

\* transaction ids carried by the callbacks and the state data
TransactionIds == 1..MaxFlows

InitUsers ==
    /\ fsm = [u \in TwoUsers |-> "none"]
    /\ data = [u \in TwoUsers |-> EmptyData]
    /\ categories = SeedCategories
    /\ tx_count = 0
    /\ transactions = <<>>
    /\ NoLimiter
    /\ commits = [u \in TwoUsers |-> <<>>]
    /\ users = {}
    /\ shown = [u \in TwoUsers |-> {}]
    /\ flows = 0
    /\ draft = [u \in TwoUsers |-> 0]
    /\ last = NoEvent
    /\ NoTasks
    /\ NoFunction
    /\ NoCallers
    /\ NoParse

NextUsers ==
    \/ \E u \in TwoUsers : cmd_add_transaction(u)
    \/ \E u \in TwoUsers, t \in {"income", "expense"} : process_type_selection(u, t)
    \/ \E u \in TwoUsers, text \in TwoUsersAmountTexts :
           process_amount_input(u, text, TwoUsersLimits, 0)
    \/ \E u \in TwoUsers, c \in 0..Len(categories) : process_category_selection(u, c)
    \/ \E u \in TwoUsers : process_skip_description(u)
    \/ \E u \in TwoUsers, action \in {"yes", "no"}, dbOk \in BOOLEAN :
           process_confirmation(u, action, dbOk)
    \/ \E u \in TwoUsers : process_cancel(u)
    \/ \E u \in TwoUsers, field \in EditFields, transaction_id \in TransactionIds :
           handle_edit_field(u, field, transaction_id)
    \/ \E u \in TwoUsers, field \in EditFields, valid \in BOOLEAN :
           process_edit(u, field, valid)
    \/ \E u \in TwoUsers, transaction_id \in TransactionIds :
           handle_delete_confirm(u, transaction_id)

SpecUsers == InitUsers /\ [][NextUsers]_vars

\* the rows of table transactions owned by user v
RowsOf(t, v) == {<<i, t[i]>> : i \in {j \in DOMAIN t : t[j].user_id = v}}

\* C36: users are independent.  A create_transaction call made by the
\* handler of a user's event carries, as owner, the id of that user, and
\* the event of a user leaves the state slot, the draft, the commit record
\* and the rows of every other user as they were; update_transaction and
\* delete_transaction change a row only when its user_id is the sender's.
C36_Step ==
    LET u == last'.user
    IN  /\ last'.call /= NoCall => last'.call.user_id = u
        /\ \A v \in TwoUsers \ {u} :
              /\ fsm'[v] = fsm[v]
              /\ data'[v] = data[v]
              /\ draft'[v] = draft[v]
              /\ commits'[v] = commits[v]
              /\ RowsOf(transactions', v) = RowsOf(transactions, v)
        /\ \A i \in DOMAIN transactions :
              (i \in DOMAIN transactions' /\ transactions'[i] = transactions[i])
                 \/ transactions[i].user_id = u

C36_UsersIndependent == [][C36_Step]_vars

\* user 1 asked to delete the row of user 2 while user 2 was filling in a
\* second draft: the row is still there and the draft of user 2 untouched
C36_Witness ==
    /\ last.user = 1
    /\ last.handler = "handle_delete_transaction"
    /\ last.result = "not_found"
    /\ last.out = <<1>>
    /\ transactions = <<Inserted(2)>>
    /\ fsm[2] = "choosing_category"
    /\ data[2].user_id = 2

(***************************************************************************)
(* Rate limiter backends                                                   *)
(*                                                                         *)
(* check_rate_limit(user_id, max_requests, time_window) of the in-memory   *)
(* and of the Redis backend, called for two users with the same            *)
(* max_requests and time_window while time passes in whole seconds.  A key *)
(* of the Redis server that has reached its expiry is gone.  `window` is   *)
(* history: a window opens with a call that finds no record of its user    *)
(* (no timestamp younger than time_window, no key) and lasts time_window   *)
(* seconds.  input[1] is the backend the RateLimiter was built with.       *)
(***************************************************************************)
max_requests == 2

time_window == 3

\* the seconds the clock runs for
MaxTime == 7

\* the calls made for a user inside one window, and the value of a counter
\* without expiry, stay below this
MaxCount == 4

Backends == {"memory", "redis"}

\* the second element of the returned tuple
NoMessage == <<>>

ErrorMessage(seconds) == <<"retry_in", seconds>>

\* no key 'rate_limit:user:<id>'; expire_at = NoExpiry: the key has no TTL
NoExpiry == 0 - 1

NoKey == [count |-> 0, expire_at |-> NoExpiry]

\* the key of a user as the server sees it at the current time
KeyAt(user_id) ==
    IF redis[user_id].expire_at /= NoExpiry /\ now >= redis[user_id].expire_at
    THEN NoKey
    ELSE redis[user_id]

\* TTL key: -2 no key, -1 no expiry, else the seconds left
ttl_of(k) ==
    IF k.count = 0 THEN 0 - 2
    ELSE IF k.expire_at = NoExpiry THEN 0 - 1
    ELSE k.expire_at - now

\* the timestamps of a user younger than time_window
Recent(user_id) ==
    SelectSeq(_requests[user_id], LAMBDA req_time : now - req_time < time_window)

\* no window is being followed for a user
NoWindow == [open |-> FALSE, start |-> 0, calls |-> 0]

\* the window after a call; fresh: the call found no record of the user
Counted(w, fresh) ==
    IF fresh THEN [open |-> TRUE, start |-> now, calls |-> 1]
    ELSE IF w.open /\ now < w.start + time_window
    THEN [w EXCEPT !.calls = @ + 1]
    ELSE NoWindow

\* InMemoryRateLimiterBackend.check_rate_limit that keeps every timestamp
check_rate_limit_unpruned(user_id) ==
    /\ input[1] = "memory"
    /\ window[user_id].calls < MaxCount
    /\ _requests' =
          [_requests EXCEPT ![user_id] =
              IF Len(@) >= max_requests THEN @ ELSE Append(@, now)]
    /\ output' = IF Len(_requests[user_id]) >= max_requests
                 THEN <<FALSE, ErrorMessage(time_window)>>
                 ELSE <<TRUE, NoMessage>>
    /\ input' = <<"memory", user_id>>
    /\ window' = [window EXCEPT ![user_id] =
                     Counted(@, Recent(user_id) = <<>>)]
    /\ UNCHANGED <<redis, now>>
    /\ UNCHANGED <<dialogs, polling, whisper, parsing>>

\* InMemoryRateLimiterBackend.check_rate_limit
check_rate_limit_memory(user_id) ==
    /\ input[1] = "memory"
    /\ window[user_id].calls < MaxCount
    /\ _requests' =
          [_requests EXCEPT ![user_id] =
              IF Len(Recent(user_id)) >= max_requests THEN Recent(user_id)
              ELSE Append(Recent(user_id), now)]
    /\ output' = IF Len(Recent(user_id)) >= max_requests
                 THEN <<FALSE, ErrorMessage(time_window)>>
                 ELSE <<TRUE, NoMessage>>
    /\ input' = <<"memory", user_id>>
    /\ window' = [window EXCEPT ![user_id] =
                     Counted(@, Recent(user_id) = <<>>)]
    /\ UNCHANGED <<redis, now>>
    /\ UNCHANGED <<dialogs, polling, whisper, parsing>>

\* what can go wrong in one call: a command raises, or the call is
\* cancelled after INCR has returned
RedisFaults == {"none", "incr", "expire", "ttl", "cancelled"}

\* RedisRateLimiterBackend.check_rate_limit
check_rate_limit_redis(user_id, fault) ==
    LET key == KeyAt(user_id)
        current_count == key.count + 1
        incremented == [key EXCEPT !.count = current_count]
        expiring == [incremented EXCEPT !.expire_at = now + time_window]
        stored == IF fault = "incr" THEN redis[user_id]
                  ELSE IF current_count = 1 /\ fault \notin {"expire", "cancelled"}
                  THEN expiring
                  ELSE incremented
        ttl == ttl_of(stored)
    IN  /\ input[1] = "redis"
        /\ key.count < MaxCount
        /\ window[user_id].calls < MaxCount
        /\ redis' = [redis EXCEPT ![user_id] = stored]
        /\ output' =
              IF fault = "cancelled" THEN <<>>
              ELSE IF fault = "incr" THEN <<TRUE, NoMessage>>
              ELSE IF current_count = 1 /\ fault = "expire"
              THEN <<TRUE, NoMessage>>
              ELSE IF current_count > max_requests
              THEN IF fault = "ttl" THEN <<TRUE, NoMessage>>
                   ELSE IF ttl > 0 THEN <<FALSE, ErrorMessage(ttl)>>
                   ELSE <<FALSE, ErrorMessage(time_window)>>
              ELSE <<TRUE, NoMessage>>
        /\ input' = <<"redis", user_id>>
        /\ window' = [window EXCEPT ![user_id] =
                         Counted(@, key = NoKey)]
        /\ UNCHANGED <<_requests, now>>
        /\ UNCHANGED <<dialogs, polling, whisper, parsing>>

\* RateLimiter.check_rate_limit with one of the backends
check_rate_limit(backend, user_id) ==
    IF backend = "memory" THEN check_rate_limit_memory(user_id)
    ELSE check_rate_limit_redis(user_id, "none")

\* a second passes
tick ==
    /\ now < MaxTime
    /\ now' = now + 1
    /\ UNCHANGED <<_requests, redis, window>>
    /\ UNCHANGED <<dialogs, polling, whisper, parsing, pure>>

InitLimiter ==
    /\ fsm = [u \in Users |-> "none"]
    /\ data = [u \in Users |-> EmptyData]
    /\ categories = SeedCategories
    /\ tx_count = 0
    /\ transactions = <<>>
    /\ commits = [u \in Users |-> <<>>]
    /\ users = {}
    /\ shown = [u \in Users |-> {}]
    /\ flows = 0
    /\ draft = [u \in Users |-> 0]
    /\ last = NoEvent
    /\ NoTasks
    /\ NoCallers
    /\ NoParse
    /\ input \in {<<backend, 0>> : backend \in Backends}
    /\ output = <<>>
    /\ _requests = [u \in TwoUsers |-> <<>>]
    /\ redis = [u \in TwoUsers |-> NoKey]
    /\ now = 0
    /\ window = [u \in TwoUsers |-> NoWindow]

NextLimiter ==
    \/ \E user_id \in TwoUsers : check_rate_limit_memory(user_id)
    \/ \E user_id \in TwoUsers : check_rate_limit_redis(user_id, "none")
    \/ tick

SpecLimiter == InitLimiter /\ [][NextLimiter]_vars

NextRedis ==
    \/ \E user_id \in TwoUsers, fault \in RedisFaults :
           check_rate_limit_redis(user_id, fault)
    \/ tick

InitRedis == InitLimiter /\ input[1] = "redis"

SpecRedis == InitRedis /\ [][NextRedis]_vars

\* the state a backend keeps for a user
RecordOf(backend, user_id) ==
    IF backend = "memory" THEN _requests[user_id] ELSE redis[user_id]

\* C37: with either backend, in a window that opens with a call finding no
\* record of its user, the first max_requests calls are allowed and every
\* further call is blocked; a blocked call returns an error message and an
\* allowed one none; the first call made once time_window seconds have
\* passed since the window opened is allowed; and a call for one user
\* leaves the record of every other user as it was.
C37_Step ==
    \A backend \in Backends, user_id \in TwoUsers :
        check_rate_limit(backend, user_id)
           => /\ output' \in {<<TRUE, NoMessage>>} \cup
                             {<<FALSE, ErrorMessage(s)>> : s \in 1..time_window}
              /\ window'[user_id].open
                    => (output'[1] <=> window'[user_id].calls <= max_requests)
              /\ (/\ window[user_id].open
                  /\ now >= window[user_id].start + time_window)
                    => output'[1]
              /\ \A v \in TwoUsers \ {user_id} :
                    RecordOf(backend, v)' = RecordOf(backend, v)

C38_EveryCounterExpires ==
    \A user_id \in TwoUsers :
        KeyAt(user_id).count > 0 => KeyAt(user_id).expire_at /= NoExpiry

====
